---- MODULE Spec2Model ----
(***************************************************************************)
(* Model of the serial transports of the battery-pack simulator:           *)
(*   - SequentialXBBUART (communication/uart_xbb_sequential.py): the       *)
(*     single-threaded send -> wait -> receive exchange with retries;      *)
(*   - BidirectionalUART (communication/uart_bidirectional.py): the        *)
(*     threaded transport with a sender loop, a receiver loop and caller   *)
(*     threads sharing one port, two queues and four locks.                *)
(***************************************************************************)
EXTENDS Integers, Sequences, FiniteSets, TLC

(***************************************************************************)
(* Bounds of the model.                                                    *)
(***************************************************************************)
\* max_retries of SequentialXBBUART.__init__ (default 10), scaled down.
max_retries == 3
\* Number of send_and_receive calls explored.
MaxCalls == 2
\* Distinct response payloads the device may send.
MaxData == 2
\* Requests the device holds unanswered at a time.
MaxBacklog == 2
\* Width in bits of the request identifier's word (32), scaled down.
WordBits == 3
\* Capacity of the outbound queue, queue.Queue(maxsize=100), scaled down.
TxQueueCap == 2
\* Capacity of the inbound queue, queue.Queue(maxsize=1000), scaled down.
RxQueueCap == 2
\* Width in bits of the outbound sequence number (16), scaled down.
SeqBits == 2
\* send_frame calls explored beyond those that fill the outbound queue.
MaxSends == 1
\* Frames the device sends beyond those that fill the inbound queue.
MaxFrames == 1
\* Port read failures explored.
MaxReadFaults == 1
\* Width in bits of a byte (8), scaled down; every multi-byte field scales
\* with it.
ByteBits == 5
\* Longest run of garbage bytes put in front of a frame.
MaxGarbage == 3
\* Longest payload of the frames given to _extract_frame.
MaxPayload == 2
\* Cells of the pack (16), scaled down: the length of the cell arrays.
NumCells == 2
\* Fault-code bytes of the status payload (8), scaled down.
NumFaultCodes == 2

(***************************************************************************)
(* Constants of protocol.py.                                               *)
(***************************************************************************)
SOF == 165
EOF == 170
MSG_ID_AFE_MEAS == 1
MSG_ID_BMS_APP == 2
CrcPolynomial == 4129

VARIABLES
    \* ---- SequentialXBBUART ----
    s_open,         \* self._serial is not None and self._serial.is_open
    s_pc,           \* position inside send_and_receive
    s_attempt,      \* the loop variable attempt
    s_tx_counter,   \* self._tx_counter
    s_tx_count,     \* self._tx_count
    s_rx_count,     \* self._rx_count
    s_error_count,  \* self._error_count
    s_retry_count,  \* self._retry_count
    s_bms_state,    \* self._bms_state (None = 0)
    s_rx_frame,     \* rx_frame of the current attempt
    s_result,       \* how the last call ended
    s_calls,        \* send_and_receive calls made so far
    s_writes,       \* history: self._serial.write calls of the current call
    s_tx_frame,     \* tx_frame, known by the counter value encoded in it
    s_sent,         \* history: the frames given to self._serial.write by the
                    \* current call
    s_hist,         \* history: outcome of each attempt of the current call
    s_requests,     \* requests written to the port the device has not answered
    s_inbuf,        \* responses waiting in the port's input buffer, each
                    \* known by the call whose request it answers
    \* ---- BidirectionalUART ----
    port,               \* self._serial: "closed" (None or not is_open) or "open"
    serial_lock,        \* self._serial_lock: its holder, or Free
    stats_lock,         \* self._stats_lock
    bms_state_lock,     \* self._bms_state_lock
    callback_lock,      \* self._callback_lock
    pc,                 \* position of each thread
    loc,                \* local variables of each thread
    tx_queue,           \* self._tx_queue
    rx_queue,           \* self._rx_queue
    tx_stop_event,      \* self._tx_stop_event
    rx_stop_event,      \* self._rx_stop_event
    tx_sequence,        \* self._tx_sequence
    stats,              \* the six statistics counters
    bms_state,          \* self._bms_state
    bms_data_callback,  \* self._bms_data_callback is set
    wire,               \* frames waiting in the port's input buffer
    rx_buffer,          \* self._rx_buffer, as a sequence of frames
    env,                \* what the environment has done so far
    hist,               \* history variables of the properties
    \* ---- _extract_frame and the frame codec, called on their own ----
    x_buffer,       \* self._rx_buffer, byte by byte
    x_pending,      \* bytes the port has not delivered yet
    x_yield,        \* history: the frames _extract_frame has returned
    x_last,         \* what the last _extract_frame call returned
    x_counted,      \* history: what the last call, or poll cycle, added to
                    \* self._frame_errors
    x_given,        \* history: what the buffer was built from
    c_op,           \* the codec function that was called, if any
    c_in,           \* its argument
    c_out           \* its result

sync_vars == <<s_open, s_pc, s_attempt, s_tx_counter, s_tx_count, s_rx_count,
               s_error_count, s_retry_count, s_bms_state, s_rx_frame,
               s_result, s_calls, s_writes, s_tx_frame, s_sent, s_hist,
               s_requests, s_inbuf>>

async_vars == <<port, serial_lock, stats_lock, bms_state_lock, callback_lock,
                pc, loc, tx_queue, rx_queue, tx_stop_event, rx_stop_event,
                tx_sequence, stats, bms_state, bms_data_callback, wire,
                rx_buffer, env, hist>>

codec_vars == <<x_buffer, x_pending, x_yield, x_last, x_counted, x_given,
                c_op, c_in, c_out>>

vars == <<sync_vars, async_vars, codec_vars>>

None == 0
BmsData == 1..MaxData

(***************************************************************************)
(* SequentialXBBUART                                                       *)
(***************************************************************************)

\* A 118-byte candidate frame read by _receive_frame: its payload and whether
\* its CRC8 and layout are intact.
RxFrames == [data : BmsData, intact : BOOLEAN]

\* XBBFrameDecoder.decode: the decoded status, or None for a frame that fails
\* validation.
XBBDecode(frame) == IF frame.intact THEN frame.data ELSE None

\* self._tx_counter wraps at 2**31, one bit short of the word.
TxCounterModulus == 2^(WordBits - 1)

\* The requests the device still holds when one more arrives: it gives up
\* the oldest when it holds MaxBacklog already.
Backlog(requests) ==
    IF Len(requests) >= MaxBacklog THEN Tail(requests) ELSE requests

\* for attempt in range(1, self.max_retries + 1)
InRange_short(a) == a \in 1..(max_retries - 1)
InRange_endless(a) == a >= 1
InRange(a) == a \in 1..max_retries

\* attempt < self.max_retries
NotLast(a) == a < max_retries

\* The transport after __init__, or later between two calls when counter
\* requests have been encoded.
SyncFrom(counter) ==
    /\ s_open = FALSE
    /\ s_pc = "idle"
    /\ s_attempt = 0
    /\ s_tx_counter = counter
    /\ s_tx_count = 0
    /\ s_rx_count = 0
    /\ s_error_count = 0
    /\ s_retry_count = 0
    /\ s_bms_state = None
    /\ s_rx_frame = None
    /\ s_result = "none"
    /\ s_calls = 0
    /\ s_writes = 0
    /\ s_tx_frame = None
    /\ s_sent = <<>>
    /\ s_hist = <<>>
    /\ s_requests = <<>>
    /\ s_inbuf = <<>>

SyncInit == SyncFrom(0)

\* start(): serial.Serial(...) opens the port or raises.
SyncStart ==
    /\ s_pc = "idle"
    /\ \E ok \in BOOLEAN : s_open' = ok
    /\ UNCHANGED <<s_pc, s_attempt, s_tx_counter, s_tx_count, s_rx_count,
                   s_error_count, s_retry_count, s_bms_state, s_rx_frame,
                   s_result, s_calls, s_writes, s_tx_frame, s_sent, s_hist,
                   s_requests, s_inbuf>>
    /\ UNCHANGED <<async_vars, codec_vars>>

\* stop(): closes the port when it is open.
SyncStop ==
    /\ s_pc = "idle"
    /\ s_open
    /\ s_open' = FALSE
    /\ UNCHANGED <<s_pc, s_attempt, s_tx_counter, s_tx_count, s_rx_count,
                   s_error_count, s_retry_count, s_bms_state, s_rx_frame,
                   s_result, s_calls, s_writes, s_tx_frame, s_sent, s_hist,
                   s_requests, s_inbuf>>
    /\ UNCHANGED <<async_vars, codec_vars>>

\* XBBFrameEncoder.encode_frame(..., counter=self._tx_counter): the frame of
\* a call's measurements, which differs from call to call and attempt to
\* attempt only in the counter it carries (counters start at 0; None is no
\* frame).
EncodedWith(counter) == counter + 1

\* self._send_frame(tx_frame): the frame an attempt writes is the one that
\* was encoded before the loop.
FrameToSend_reencoded(tx_frame, counter) == EncodedWith(counter)
FrameToSend(tx_frame, counter) == tx_frame

\* The loop header: the next value of attempt, or the code after the loop
\* (sys.exit(1)) when range() is exhausted.
LoopNext(a) ==
    IF InRange(a)
    THEN /\ s_attempt' = a
         /\ s_pc' = "send"
         /\ s_result' = "pending"
    ELSE /\ s_attempt' = s_attempt
         /\ s_pc' = "exited"
         /\ s_result' = "exit"

\* send_and_receive up to the loop: the port check, the encoding of the
\* request with the counter, and the first pass through the loop header.
SendAndReceiveBegin ==
    /\ s_pc = "idle"
    /\ s_calls < MaxCalls
    /\ s_calls' = s_calls + 1
    /\ s_writes' = 0
    /\ s_sent' = <<>>
    /\ s_hist' = <<>>
    /\ s_rx_frame' = None
    /\ IF ~s_open
       THEN /\ s_result' = "false"
            /\ s_tx_frame' = None
            /\ UNCHANGED <<s_pc, s_attempt, s_tx_counter>>
       ELSE \E encoded \in BOOLEAN :
              IF encoded
              THEN /\ s_tx_frame' = EncodedWith(s_tx_counter)
                   /\ s_tx_counter' = (s_tx_counter + 1) % TxCounterModulus
                   /\ LoopNext(1)
              ELSE /\ s_result' = "false"
                   /\ s_tx_frame' = None
                   /\ UNCHANGED <<s_pc, s_attempt, s_tx_counter>>
    /\ UNCHANGED <<s_open, s_tx_count, s_rx_count, s_error_count,
                   s_retry_count, s_bms_state, s_requests, s_inbuf>>
    /\ UNCHANGED <<async_vars, codec_vars>>

\* One pass from the top of the loop body to the end of _send_frame:
\* reset_input_buffer, which is called outside any try, then write and
\* flush, which succeed or raise inside _send_frame's try.
AttemptSend ==
    /\ s_pc = "send"
    /\ \E reset \in BOOLEAN :
         IF ~reset
         THEN /\ s_pc' = "idle"
              /\ s_result' = "raised"
              /\ UNCHANGED <<s_writes, s_sent, s_tx_count, s_error_count,
                             s_attempt, s_hist, s_requests, s_inbuf>>
         ELSE /\ s_inbuf' = <<>>
              /\ s_writes' = s_writes + 1
              /\ s_sent' = Append(s_sent,
                                  FrameToSend(s_tx_frame, s_tx_counter))
              /\ \E written \in BOOLEAN :
                   IF written
                   THEN /\ s_tx_count' = s_tx_count + 1
                        /\ s_requests' = Append(Backlog(s_requests), s_calls)
                        /\ s_pc' = "receive"
                        /\ UNCHANGED <<s_error_count, s_attempt, s_result,
                                       s_hist>>
                   ELSE /\ s_error_count' = s_error_count + 1
                        /\ s_hist' = Append(s_hist, [kind |-> "write_failed",
                                                     data |-> None])
                        /\ s_tx_count' = s_tx_count
                        /\ s_requests' = s_requests
                        /\ IF NotLast(s_attempt)
                           THEN LoopNext(s_attempt + 1)
                           ELSE /\ s_pc' = "idle"
                                /\ s_result' = "false"
                                /\ s_attempt' = s_attempt
    /\ UNCHANGED <<s_open, s_tx_counter, s_rx_count, s_retry_count,
                   s_bms_state, s_rx_frame, s_calls, s_tx_frame>>
    /\ UNCHANGED <<async_vars, codec_vars>>

\* The device answers the oldest request it has not answered yet, after any
\* delay: a full candidate frame reaches the port's input buffer.  An answer
\* that arrives between two calls meets the same reset_input_buffer as one
\* that arrives at the start of the next call, and is taken as such.
DeviceRespond ==
    /\ s_pc \in {"send", "receive"}
    /\ s_requests # <<>>
    /\ s_inbuf' = Append(s_inbuf, Head(s_requests))
    /\ s_requests' = Tail(s_requests)
    /\ UNCHANGED <<s_open, s_pc, s_attempt, s_tx_counter, s_tx_count,
                   s_rx_count, s_error_count, s_retry_count, s_bms_state,
                   s_rx_frame, s_result, s_calls, s_writes, s_tx_frame,
                   s_sent, s_hist>>
    /\ UNCHANGED <<async_vars, codec_vars>>

\* get_bms_state(): return self._bms_state
get_bms_state == s_bms_state

\* The end of a failed attempt: the retry counter and the loop header.
FailedAttempt_clears(kind) ==
    /\ s_error_count' = s_error_count + 1
    /\ s_hist' = Append(s_hist, [kind |-> kind, data |-> None])
    /\ s_retry_count' = IF NotLast(s_attempt) THEN s_retry_count + 1
                        ELSE s_retry_count
    /\ LoopNext(s_attempt + 1)
    /\ s_bms_state' = None
    /\ UNCHANGED s_rx_count
FailedAttempt(kind) ==
    /\ s_error_count' = s_error_count + 1
    /\ s_hist' = Append(s_hist, [kind |-> kind, data |-> None])
    /\ s_retry_count' = IF NotLast(s_attempt) THEN s_retry_count + 1
                        ELSE s_retry_count
    /\ LoopNext(s_attempt + 1)
    /\ UNCHANGED <<s_bms_state, s_rx_count>>

\* A response that decodes and validates: store it, count it, return True.
ReceiveValid_noreturn(d) ==
    /\ s_bms_state' = d
    /\ s_rx_count' = s_rx_count + 1
    /\ s_hist' = Append(s_hist, [kind |-> "valid", data |-> d,
                                 req |-> Head(s_inbuf)])
    /\ LoopNext(s_attempt + 1)
    /\ UNCHANGED <<s_error_count, s_retry_count>>
ReceiveValid(d) ==
    /\ s_bms_state' = d
    /\ s_rx_count' = s_rx_count + 1
    /\ s_hist' = Append(s_hist, [kind |-> "valid", data |-> d,
                                 req |-> Head(s_inbuf)])
    /\ s_pc' = "idle"
    /\ s_result' = "true"
    /\ UNCHANGED <<s_attempt, s_error_count, s_retry_count>>

\* _receive_frame and what follows it in the loop body.  Nothing has
\* reached the input buffer within the timeout, or the first candidate frame
\* in it is read, whatever the device put into it.
AttemptReceive ==
    /\ s_pc = "receive"
    /\ IF s_inbuf = <<>>
       THEN /\ s_rx_frame' = None
            /\ s_inbuf' = s_inbuf
            /\ FailedAttempt("timeout")
       ELSE \E frame \in RxFrames :
            /\ s_rx_frame' = frame
            /\ s_inbuf' = Tail(s_inbuf)
            /\ IF XBBDecode(frame) # None
               THEN ReceiveValid(XBBDecode(frame))
               ELSE FailedAttempt("invalid")
    /\ UNCHANGED <<s_open, s_tx_counter, s_tx_count, s_calls, s_writes,
                   s_tx_frame, s_sent, s_requests>>
    /\ UNCHANGED <<async_vars, codec_vars>>

SyncNext ==
    \/ SyncStart
    \/ SyncStop
    \/ SendAndReceiveBegin
    \/ AttemptSend
    \/ DeviceRespond
    \/ AttemptReceive

(***************************************************************************)
(* BidirectionalUART: state                                                *)
(***************************************************************************)

\* The threads start() creates on its first call and those it creates when
\* it is called again: each call makes a new sender thread and a new
\* receiver thread.
Senders == {"tx", "tx2"}
Receivers == {"rx", "rx2"}

\* The sender loops, the receiver loops, the thread that owns the transport
\* (start, send_frame, get_bms_state, stop) and one more caller thread.
Threads == Senders \cup Receivers \cup {"main", "aux"}

Free == "free"

\* None where a dict is expected (a decoded record, a snapshot).
NoRecord == [none |-> TRUE]

Counters == {"tx_count", "rx_count", "tx_errors", "rx_errors",
             "crc_errors", "frame_errors"}

\* (self._tx_sequence + 1) & 0xFFFF
SeqModulus == 2^SeqBits

\* The locals of a thread: the counter an increment is working on and the
\* value it read, where a called method returns to, the frame or record in
\* hand, the index of the field _update_bms_state writes next, the result of
\* the last send_frame and the last snapshot get_bms_state returned.
NoLocals == [ctr |-> "", tmp |-> 0, ret |-> "", cur |-> None, i |-> 0,
             res |-> "none", snap |-> NoRecord]

\* self._bms_state as __init__ leaves it.
InitialBmsState ==
    [mosfet_charge |-> TRUE, mosfet_discharge |-> TRUE,
     protection_active |-> FALSE, protection_flags |-> 0,
     bms_current_ma |-> 0, bms_voltage_mv |-> 0,
     last_update_ms |-> 0, last_update_time |-> 0]

NoHistory ==
    [events |-> [c \in Counters |-> 0],
     sf_full |-> FALSE, sf_kept |-> FALSE, sf_incs |-> 0, sf_seq0 |-> 0,
     sf_valid |-> TRUE,
     accepted |-> <<>>, rejected |-> FALSE, tx_settled |-> 0,
     rx_full |-> <<>>, rx_raced |-> FALSE,
     cb_raised |-> FALSE, cb_fate |-> "none"]

\* The state after __init__.  The environment budget says how many
\* send_frame calls the owner makes, how many frames of which kinds the
\* device sends and how many reads of the port fail.
AsyncInit(budget) ==
    /\ port = "closed"
    /\ serial_lock = Free
    /\ stats_lock = Free
    /\ bms_state_lock = Free
    /\ callback_lock = Free
    /\ pc = [t \in Threads |->
               CASE t = "main" -> "created"
                 [] t = "aux" -> "idle"
                 [] OTHER -> "not_started"]
    /\ loc = [t \in Threads |-> NoLocals]
    /\ tx_queue = <<>>
    /\ rx_queue = <<>>
    /\ tx_stop_event = FALSE
    /\ rx_stop_event = FALSE
    /\ tx_sequence = 0
    /\ stats = [c \in Counters |-> 0]
    /\ bms_state = InitialBmsState
    /\ bms_data_callback = FALSE
    /\ wire = <<>>
    /\ rx_buffer = <<>>
    /\ env = [sends_left |-> budget.sends, frames_left |-> budget.frames,
              faults_left |-> budget.read_faults, kinds |-> budget.kinds,
              sent |-> 0, written |-> <<>>]
    /\ hist = NoHistory

(***************************************************************************)
(* Locks and queues                                                        *)
(***************************************************************************)

\* threading.Lock.acquire returns only when no thread holds the lock.
SerialLockFree_reentrant == TRUE
SerialLockFree == serial_lock = Free

StatsLockFree_unlocked == TRUE
StatsLockFree == stats_lock = Free

BmsStateLockFree_unlocked == TRUE
BmsStateLockFree == bms_state_lock = Free

CallbackLockFree == callback_lock = Free

\* queue.Queue.put_nowait on a queue of capacity cap: the item goes to the
\* tail, or queue.Full is raised and the queue is left as it is.
PutNowait_evict(q, item, cap) ==
    IF Len(q) < cap THEN [ok |-> TRUE, q |-> Append(q, item)]
    ELSE [ok |-> TRUE, q |-> Append(Tail(q), item)]
PutNowait(q, item, cap) ==
    IF Len(q) < cap THEN [ok |-> TRUE, q |-> Append(q, item)]
    ELSE [ok |-> FALSE, q |-> q]

Goto(t, p) == pc' = [pc EXCEPT ![t] = p]

(***************************************************************************)
(* with self._stats_lock: self._<counter> += 1                             *)
(***************************************************************************)

\* The statement is reached: the thread waits for the statistics lock.
CallInc(t, c, ret) ==
    /\ pc' = [pc EXCEPT ![t] = "inc_acq"]
    /\ loc' = [loc EXCEPT ![t].ctr = c, ![t].ret = ret]

\* The lock is taken and the counter read.
IncAcquire(t) ==
    /\ pc[t] = "inc_acq"
    /\ StatsLockFree
    /\ stats_lock' = t
    /\ loc' = [loc EXCEPT ![t].tmp = stats[loc[t].ctr]]
    /\ hist' = [hist EXCEPT !.events[loc[t].ctr] = @ + 1,
                            !.sf_incs = IF t = "main" /\ loc[t].ret = "sf_false"
                                        THEN @ + 1 ELSE @,
                            !.tx_settled = IF t \in Senders THEN @ + 1 ELSE @]
    /\ Goto(t, "inc_wr")
    /\ UNCHANGED <<port, serial_lock, bms_state_lock, callback_lock, tx_queue,
                   rx_queue, tx_stop_event, rx_stop_event, tx_sequence, stats,
                   bms_state, bms_data_callback, wire, rx_buffer, env>>
    /\ UNCHANGED <<sync_vars, codec_vars>>

\* The counter is written and the lock released.
IncWrite(t) ==
    /\ pc[t] = "inc_wr"
    /\ stats' = [stats EXCEPT ![loc[t].ctr] = loc[t].tmp + 1]
    /\ stats_lock' = Free
    /\ pc' = [pc EXCEPT ![t] = loc[t].ret]
    /\ loc' = [loc EXCEPT ![t].ctr = "", ![t].tmp = 0, ![t].ret = ""]
    /\ UNCHANGED <<port, serial_lock, bms_state_lock, callback_lock, tx_queue,
                   rx_queue, tx_stop_event, rx_stop_event, tx_sequence,
                   bms_state, bms_data_callback, wire, rx_buffer, env, hist>>
    /\ UNCHANGED <<sync_vars, codec_vars>>

(***************************************************************************)
(* _open_serial_port and _close_serial_port                                *)
(***************************************************************************)

\* Where _open_serial_port returns to in its caller.
OpenReturn(t, opened) ==
    CASE t = "main" -> IF opened THEN "start_threads" ELSE "start_failed"
      [] OTHER      -> IF opened THEN "tx_write" ELSE "tx_unlock"

\* _open_serial_port from "with self._serial_lock" on: the thread waits for
\* the lock; with it, an open port is kept, a closed one is opened or
\* serial.Serial raises, which is counted as a send error.
OpenAcquire(t) ==
    /\ pc[t] = "open_acq"
    /\ SerialLockFree
    /\ \E opened \in BOOLEAN :
         IF port = "open" \/ opened
         THEN /\ port' = "open"
              /\ Goto(t, OpenReturn(t, TRUE))
              /\ loc' = loc
         ELSE /\ port' = port
              /\ CallInc(t, "tx_errors", "open_failed")
    /\ UNCHANGED <<serial_lock, stats_lock, bms_state_lock, callback_lock,
                   tx_queue, rx_queue, tx_stop_event, rx_stop_event,
                   tx_sequence, stats, bms_state, bms_data_callback, wire,
                   rx_buffer, env, hist>>
    /\ UNCHANGED <<sync_vars, codec_vars>>

\* return False of _open_serial_port.
OpenFailed(t) ==
    /\ pc[t] = "open_failed"
    /\ Goto(t, OpenReturn(t, FALSE))
    /\ UNCHANGED <<port, serial_lock, stats_lock, bms_state_lock,
                   callback_lock, loc, tx_queue, rx_queue, tx_stop_event,
                   rx_stop_event, tx_sequence, stats, bms_state,
                   bms_data_callback, wire, rx_buffer, env, hist>>
    /\ UNCHANGED <<sync_vars, codec_vars>>

\* _close_serial_port: the thread waits for the lock; with it, the port is
\* closed and the lock released.
CloseAcquire(t) ==
    /\ pc[t] = "close_acq"
    /\ SerialLockFree
    /\ port' = "closed"
    /\ pc' = [pc EXCEPT ![t] = loc[t].ret]
    /\ loc' = [loc EXCEPT ![t].ret = ""]
    /\ UNCHANGED <<serial_lock, stats_lock, bms_state_lock, callback_lock,
                   tx_queue, rx_queue, tx_stop_event, rx_stop_event,
                   tx_sequence, stats, bms_state, bms_data_callback, wire,
                   rx_buffer, env, hist>>
    /\ UNCHANGED <<sync_vars, codec_vars>>

(***************************************************************************)
(* _tx_worker                                                              *)
(***************************************************************************)

\* The loop header and self._tx_queue.get(timeout=0.1): the loop ends when
\* the stop event is set, goes round when the queue stays empty, and takes
\* the oldest frame otherwise (the pacing sleep follows).
TxLoop(t) ==
    /\ pc[t] = "tx_loop"
    /\ IF tx_stop_event
       THEN /\ Goto(t, "close_acq")
            /\ loc' = [loc EXCEPT ![t].ret = "tx_done"]
            /\ tx_queue' = tx_queue
       ELSE IF tx_queue = <<>>
       THEN UNCHANGED <<pc, loc, tx_queue>>
       ELSE /\ Goto(t, "tx_acquire")
            /\ loc' = [loc EXCEPT ![t].cur = Head(tx_queue)]
            /\ tx_queue' = Tail(tx_queue)
    /\ UNCHANGED <<port, serial_lock, stats_lock, bms_state_lock,
                   callback_lock, rx_queue, tx_stop_event, rx_stop_event,
                   tx_sequence, stats, bms_state, bms_data_callback, wire,
                   rx_buffer, env, hist>>
    /\ UNCHANGED <<sync_vars, codec_vars>>

\* with self._serial_lock: in the sender loop.
TxAcquire(t) ==
    /\ pc[t] = "tx_acquire"
    /\ SerialLockFree
    /\ serial_lock' = t
    /\ Goto(t, "tx_locked")
    /\ UNCHANGED <<port, stats_lock, bms_state_lock, callback_lock, loc,
                   tx_queue, rx_queue, tx_stop_event, rx_stop_event,
                   tx_sequence, stats, bms_state, bms_data_callback, wire,
                   rx_buffer, env, hist>>
    /\ UNCHANGED <<sync_vars, codec_vars>>

\* Holding the lock: a port that is not open is opened by a call of
\* _open_serial_port.
TxLocked(t) ==
    /\ pc[t] = "tx_locked"
    /\ Goto(t, IF port = "open" THEN "tx_write" ELSE "open_acq")
    /\ UNCHANGED <<port, serial_lock, stats_lock, bms_state_lock,
                   callback_lock, loc, tx_queue, rx_queue, tx_stop_event,
                   rx_stop_event, tx_sequence, stats, bms_state,
                   bms_data_callback, wire, rx_buffer, env, hist>>
    /\ UNCHANGED <<sync_vars, codec_vars>>

\* write and flush: the whole frame is written and counted, or the write is
\* short or raises (SerialTimeoutException, SerialException), which is
\* counted as a send error.
TxWrite(t) ==
    /\ pc[t] = "tx_write"
    /\ \E written \in BOOLEAN :
         IF written
         THEN /\ env' = [env EXCEPT !.written = Append(@, loc[t].cur)]
              /\ CallInc(t, "tx_count", "tx_unlock")
         ELSE /\ env' = env
              /\ CallInc(t, "tx_errors", "tx_fault")
    /\ UNCHANGED <<port, serial_lock, stats_lock, bms_state_lock,
                   callback_lock, tx_queue, rx_queue, tx_stop_event,
                   rx_stop_event, tx_sequence, stats, bms_state,
                   bms_data_callback, wire, rx_buffer, hist>>
    /\ UNCHANGED <<sync_vars, codec_vars>>

\* The except branches of the write: self._close_serial_port() is called,
\* still inside "with self._serial_lock".
TxFault(t) ==
    /\ pc[t] = "tx_fault"
    /\ Goto(t, "close_acq")
    /\ loc' = [loc EXCEPT ![t].ret = "tx_unlock"]
    /\ UNCHANGED <<port, serial_lock, stats_lock, bms_state_lock,
                   callback_lock, tx_queue, rx_queue, tx_stop_event,
                   rx_stop_event, tx_sequence, stats, bms_state,
                   bms_data_callback, wire, rx_buffer, env, hist>>
    /\ UNCHANGED <<sync_vars, codec_vars>>

\* The end of the with block, and task_done.
TxUnlock(t) ==
    /\ pc[t] = "tx_unlock"
    /\ serial_lock' = Free
    /\ loc' = [loc EXCEPT ![t].cur = None]
    /\ Goto(t, "tx_loop")
    /\ UNCHANGED <<port, stats_lock, bms_state_lock, callback_lock, tx_queue,
                   rx_queue, tx_stop_event, rx_stop_event, tx_sequence, stats,
                   bms_state, bms_data_callback, wire, rx_buffer, env, hist>>
    /\ UNCHANGED <<sync_vars, codec_vars>>

(***************************************************************************)
(* The items of the wire format and validate_afe_meas_data                 *)
(***************************************************************************)

\* A byte, scaled down to ByteBits bits.
ByteModulus == 2^ByteBits
MaxByte == ByteModulus - 1

\* A field of two bytes (H, h) and its largest unsigned value.
ShortModulus == ByteModulus * ByteModulus
MaxShort == ShortModulus - 1

\* A field of four bytes (I, i).
LongModulus == ShortModulus * ShortModulus
MaxLong == LongModulus - 1

\* The ranges of the signed fields h and i.
MinSignedShort == 0 - (ShortModulus \div 2)
MaxSignedShort == (ShortModulus \div 2) - 1
MinSignedLong == 0 - (LongModulus \div 2)
MaxSignedLong == (LongModulus \div 2) - 1

RequiredFields == {"timestamp_ms", "vcell_mv", "tcell_cc", "pack_current_ma",
                   "pack_voltage_mv", "status_flags"}

\* validate_afe_meas_data(data)[0]: every required field is there, the two
\* arrays have one element per cell, and the array values, the current, the
\* voltage and the flags are within the ranges of their items.
validate_afe_meas_data(data) ==
    /\ \A field \in RequiredFields : field \in DOMAIN data
    /\ Len(data.vcell_mv) = NumCells
    /\ \A i \in 1..NumCells : data.vcell_mv[i] \in 0..MaxShort
    /\ Len(data.tcell_cc) = NumCells
    /\ \A i \in 1..NumCells :
          data.tcell_cc[i] \in MinSignedShort..MaxSignedShort
    /\ data.pack_current_ma \in MinSignedLong..MaxSignedLong
    /\ data.pack_voltage_mv \in 0..MaxLong
    /\ data.status_flags \in 0..MaxLong

\* A record at the ends of the ranges.
GoodRecord ==
    [timestamp_ms |-> 0,
     vcell_mv |-> [i \in 1..NumCells |-> MaxShort],
     tcell_cc |-> [i \in 1..NumCells |-> MinSignedShort],
     pack_current_ma |-> MinSignedLong,
     pack_voltage_mv |-> MaxLong,
     status_flags |-> 0]

\* The records the callers pass to send_frame: a valid one, one without
\* status_flags, one with a voltage array one element short, and one with
\* a value just outside its range for each validated field.
SendRecords ==
    {GoodRecord,
     [field \in RequiredFields \ {"status_flags"} |-> GoodRecord[field]],
     [GoodRecord EXCEPT !.vcell_mv = [i \in 1..(NumCells - 1) |-> 0]],
     [GoodRecord EXCEPT !.vcell_mv[1] = MaxShort + 1],
     [GoodRecord EXCEPT !.tcell_cc[NumCells] = MinSignedShort - 1],
     [GoodRecord EXCEPT !.pack_current_ma = MaxSignedLong + 1],
     [GoodRecord EXCEPT !.pack_voltage_mv = 0 - 1],
     [GoodRecord EXCEPT !.status_flags = MaxLong + 1]}

(***************************************************************************)
(* start, send_frame, get_bms_state, stop                                  *)
(***************************************************************************)

\* start(): the call of _open_serial_port.
Start ==
    /\ pc["main"] = "created"
    /\ Goto("main", "open_acq")
    /\ UNCHANGED <<port, serial_lock, stats_lock, bms_state_lock,
                   callback_lock, loc, tx_queue, rx_queue, tx_stop_event,
                   rx_stop_event, tx_sequence, stats, bms_state,
                   bms_data_callback, wire, rx_buffer, env, hist>>
    /\ UNCHANGED <<sync_vars, codec_vars>>

\* start() after the port is open: the stop events are cleared, and a new
\* sender thread and a new receiver thread are created and started.
StartThreads ==
    /\ pc["main"] = "start_threads"
    /\ tx_stop_event' = FALSE
    /\ rx_stop_event' = FALSE
    /\ LET first == pc["tx"] = "not_started"
           tx_thread == IF first THEN "tx" ELSE "tx2"
           rx_thread == IF first THEN "rx" ELSE "rx2"
       IN pc' = [pc EXCEPT !["main"] = "running", ![tx_thread] = "tx_loop",
                           ![rx_thread] = "rx_loop"]
    /\ UNCHANGED <<port, serial_lock, stats_lock, bms_state_lock,
                   callback_lock, loc, tx_queue, rx_queue, tx_sequence, stats,
                   bms_state, bms_data_callback, wire, rx_buffer, env, hist>>
    /\ UNCHANGED <<sync_vars, codec_vars>>

\* start() called once more, on a transport that is running or that stop()
\* has returned from: again the call of _open_serial_port.
StartAgain ==
    /\ pc["main"] \in {"running", "stopped"}
    /\ pc["tx2"] = "not_started"
    /\ Goto("main", "open_acq")
    /\ UNCHANGED <<port, serial_lock, stats_lock, bms_state_lock,
                   callback_lock, loc, tx_queue, rx_queue, tx_stop_event,
                   rx_stop_event, tx_sequence, stats, bms_state,
                   bms_data_callback, wire, rx_buffer, env, hist>>
    /\ UNCHANGED <<sync_vars, codec_vars>>

\* if not is_valid: ... return False; else the code goes on to the encoding.
AfterValidation_ignored(is_valid) == "encode"
AfterValidation(is_valid) == IF is_valid THEN "encode" ELSE "reject"

\* send_frame up to the encoding: validate_afe_meas_data accepts the record
\* or not, AFEMeasFrame.encode with the current sequence number returns the
\* frame or raises.  A frame is represented by the sequence number it
\* carries.
SendFrameBegin(t) ==
    /\ pc[t] = "running"
    /\ env.sends_left > 0
    /\ env' = [env EXCEPT !.sends_left = @ - 1]
    /\ \E afe_meas_data \in SendRecords, encoded \in BOOLEAN :
         LET is_valid == validate_afe_meas_data(afe_meas_data) IN
         /\ hist' = [hist EXCEPT !.sf_full = FALSE, !.sf_kept = FALSE,
                                 !.sf_incs = 0, !.sf_seq0 = tx_sequence,
                                 !.sf_valid = is_valid]
         /\ IF AfterValidation(is_valid) = "encode" /\ encoded
            THEN /\ pc' = [pc EXCEPT ![t] = "sf_seq"]
                 /\ loc' = [loc EXCEPT ![t].cur = tx_sequence,
                                       ![t].res = "none"]
            ELSE /\ pc' = [pc EXCEPT ![t] = "inc_acq"]
                 /\ loc' = [loc EXCEPT ![t].ctr = "tx_errors",
                                       ![t].ret = "sf_false",
                                       ![t].res = "none"]
    /\ UNCHANGED <<port, serial_lock, stats_lock, bms_state_lock,
                   callback_lock, tx_queue, rx_queue, tx_stop_event,
                   rx_stop_event, tx_sequence, stats, bms_state,
                   bms_data_callback, wire, rx_buffer>>
    /\ UNCHANGED <<sync_vars, codec_vars>>

\* (self._tx_sequence + 1) & 0xFFFF
NextSequence_nowrap(seq) == seq + 1
NextSequence(seq) == (seq + 1) % SeqModulus

\* self._tx_sequence = (self._tx_sequence + 1) & 0xFFFF
SendFrameSeq(t) ==
    /\ pc[t] = "sf_seq"
    /\ tx_sequence' = NextSequence(tx_sequence)
    /\ Goto(t, "sf_put")
    /\ UNCHANGED <<port, serial_lock, stats_lock, bms_state_lock,
                   callback_lock, loc, tx_queue, rx_queue, tx_stop_event,
                   rx_stop_event, stats, bms_state, bms_data_callback, wire,
                   rx_buffer, env, hist>>
    /\ UNCHANGED <<sync_vars, codec_vars>>

\* self._tx_queue.put_nowait(...): return True, or on queue.Full count a
\* send error and return False.
SendFramePut(t) ==
    /\ pc[t] = "sf_put"
    /\ LET r == PutNowait(tx_queue, loc[t].cur, TxQueueCap) IN
         /\ tx_queue' = r.q
         /\ hist' = [hist EXCEPT !.sf_full = (Len(tx_queue) = TxQueueCap),
                                 !.sf_kept = (r.q = tx_queue),
                                 !.accepted = IF r.ok THEN Append(@, loc[t].cur)
                                              ELSE @]
         /\ IF r.ok
            THEN /\ pc' = [pc EXCEPT ![t] = "running"]
                 /\ loc' = [loc EXCEPT ![t].cur = None, ![t].res = "true"]
            ELSE /\ pc' = [pc EXCEPT ![t] = "inc_acq"]
                 /\ loc' = [loc EXCEPT ![t].cur = None, ![t].ctr = "tx_errors",
                                       ![t].ret = "sf_false"]
    /\ UNCHANGED <<port, serial_lock, stats_lock, bms_state_lock,
                   callback_lock, rx_queue, tx_stop_event, rx_stop_event,
                   tx_sequence, stats, bms_state, bms_data_callback, wire,
                   rx_buffer, env>>
    /\ UNCHANGED <<sync_vars, codec_vars>>

\* return False of send_frame.
SendFrameFalse(t) ==
    /\ pc[t] = "sf_false"
    /\ pc' = [pc EXCEPT ![t] = "running"]
    /\ loc' = [loc EXCEPT ![t].res = "false"]
    /\ hist' = [hist EXCEPT !.rejected = TRUE]
    /\ UNCHANGED <<port, serial_lock, stats_lock, bms_state_lock,
                   callback_lock, tx_queue, rx_queue, tx_stop_event,
                   rx_stop_event, tx_sequence, stats, bms_state,
                   bms_data_callback, wire, rx_buffer, env>>
    /\ UNCHANGED <<sync_vars, codec_vars>>

\* get_bms_state: with self._bms_state_lock: return self._bms_state.copy()
GetBmsState(t) ==
    /\ pc[t] \in {"running", "idle"}
    /\ BmsStateLockFree
    /\ loc' = [loc EXCEPT ![t].snap = bms_state]
    /\ UNCHANGED <<port, serial_lock, stats_lock, bms_state_lock,
                   callback_lock, pc, tx_queue, rx_queue, tx_stop_event,
                   rx_stop_event, tx_sequence, stats, bms_state,
                   bms_data_callback, wire, rx_buffer, env, hist>>
    /\ UNCHANGED <<sync_vars, codec_vars>>

\* stop(): self._tx_stop_event.set()
StopSetTx ==
    /\ pc["main"] = "running"
    /\ tx_stop_event' = TRUE
    /\ Goto("main", "stop_set_rx")
    /\ UNCHANGED <<port, serial_lock, stats_lock, bms_state_lock,
                   callback_lock, loc, tx_queue, rx_queue, rx_stop_event,
                   tx_sequence, stats, bms_state, bms_data_callback, wire,
                   rx_buffer, env, hist>>
    /\ UNCHANGED <<sync_vars, codec_vars>>

\* stop(): self._rx_stop_event.set()
StopSetRx ==
    /\ pc["main"] = "stop_set_rx"
    /\ rx_stop_event' = TRUE
    /\ Goto("main", "stop_join_tx")
    /\ UNCHANGED <<port, serial_lock, stats_lock, bms_state_lock,
                   callback_lock, loc, tx_queue, rx_queue, tx_stop_event,
                   tx_sequence, stats, bms_state, bms_data_callback, wire,
                   rx_buffer, env, hist>>
    /\ UNCHANGED <<sync_vars, codec_vars>>

\* stop(): the two join(timeout=2.0), each of which returns when its thread
\* has ended or when the two seconds are over.
StopJoin ==
    /\ pc["main"] \in {"stop_join_tx", "stop_join_rx"}
    /\ IF pc["main"] = "stop_join_tx"
       THEN /\ Goto("main", "stop_join_rx")
            /\ loc' = loc
       ELSE /\ Goto("main", "close_acq")
            /\ loc' = [loc EXCEPT !["main"].ret = "stopped"]
    /\ UNCHANGED <<port, serial_lock, stats_lock, bms_state_lock,
                   callback_lock, tx_queue, rx_queue, tx_stop_event,
                   rx_stop_event, tx_sequence, stats, bms_state,
                   bms_data_callback, wire, rx_buffer, env, hist>>
    /\ UNCHANGED <<sync_vars, codec_vars>>

(***************************************************************************)
(* _rx_worker                                                              *)
(***************************************************************************)

\* The payload of the status frame numbered d, as the device packs it.
Payload(d) ==
    [timestamp_ms |-> d, mosfet_status |-> d % 4, protection_flags |-> d - 1,
     bms_current_ma |-> 0 - d, bms_voltage_mv |-> 100 + d]

\* What the port delivers, frame by frame: a well-formed frame with a right
\* ("ok") or a wrong ("badcrc") checksum, or a run of bytes whose end marker
\* is wrong ("badeof").
FrameKinds == {"ok", "badcrc", "badeof"}

\* What is left of a frame with a wrong end marker once its start marker
\* has been dropped.
Garbage == [kind |-> "garbage", data |-> None]

\* BMSAppFrame.decode of an extracted frame: None on a checksum mismatch,
\* else the unpacked fields and the convenience fields derived from them.
BMSDecode(frame) ==
    IF frame.kind # "ok" THEN NoRecord
    ELSE LET p == Payload(frame.data) IN
         [timestamp_ms |-> p.timestamp_ms,
          mosfet_status |-> p.mosfet_status,
          protection_flags |-> p.protection_flags,
          bms_current_ma |-> p.bms_current_ma,
          bms_voltage_mv |-> p.bms_voltage_mv,
          mosfet_charge |-> (p.mosfet_status % 2 = 1),
          mosfet_discharge |-> ((p.mosfet_status \div 2) % 2 = 1),
          protection_active |-> (p.protection_flags # 0)]

\* The assignments of _update_bms_state, in their order.
StateFields ==
    <<"mosfet_charge", "mosfet_discharge", "protection_active",
      "protection_flags", "bms_current_ma", "bms_voltage_mv",
      "last_update_ms", "last_update_time">>

\* The value the i-th assignment stores (time.time() is 1: some moment after
\* construction).
UpdateValue(i, bms_data) ==
    CASE i = 1 -> bms_data.mosfet_charge
      [] i = 2 -> bms_data.mosfet_discharge
      [] i = 3 -> bms_data.protection_active
      [] i = 4 -> bms_data.protection_flags
      [] i = 5 -> bms_data.bms_current_ma
      [] i = 6 -> bms_data.bms_voltage_mv
      [] i = 7 -> bms_data.timestamp_ms
      [] OTHER -> 1

\* The device sends its next frame, the k-th carrying timestamp k; it waits
\* in the input buffer of the open port.
DeviceSend ==
    /\ port = "open"
    /\ env.frames_left > 0
    /\ \E k \in env.kinds :
         wire' = Append(wire, [kind |-> k, data |-> env.sent + 1])
    /\ env' = [env EXCEPT !.frames_left = @ - 1, !.sent = @ + 1]
    /\ UNCHANGED <<port, serial_lock, stats_lock, bms_state_lock,
                   callback_lock, pc, loc, tx_queue, rx_queue, tx_stop_event,
                   rx_stop_event, tx_sequence, stats, bms_state,
                   bms_data_callback, rx_buffer, hist>>
    /\ UNCHANGED <<sync_vars, codec_vars>>

\* while not self._rx_stop_event.is_set()
RxLoop(t) ==
    /\ pc[t] = "rx_loop"
    /\ Goto(t, IF rx_stop_event THEN "rx_done" ELSE "rx_acquire")
    /\ UNCHANGED <<port, serial_lock, stats_lock, bms_state_lock,
                   callback_lock, loc, tx_queue, rx_queue, tx_stop_event,
                   rx_stop_event, tx_sequence, stats, bms_state,
                   bms_data_callback, wire, rx_buffer, env, hist>>
    /\ UNCHANGED <<sync_vars, codec_vars>>

\* with self._serial_lock: in the receiver loop.
RxAcquire(t) ==
    /\ pc[t] = "rx_acquire"
    /\ SerialLockFree
    /\ serial_lock' = t
    /\ Goto(t, "rx_locked")
    /\ UNCHANGED <<port, stats_lock, bms_state_lock, callback_lock, loc,
                   tx_queue, rx_queue, tx_stop_event, rx_stop_event,
                   tx_sequence, stats, bms_state, bms_data_callback, wire,
                   rx_buffer, env, hist>>
    /\ UNCHANGED <<sync_vars, codec_vars>>

\* Holding the lock: with no open port, sleep and go round (the lock is
\* released on the way out); else read what is waiting into the buffer, or
\* the read raises.
RxLocked(t) ==
    /\ pc[t] = "rx_locked"
    /\ IF port # "open"
       THEN /\ serial_lock' = Free
            /\ Goto(t, "rx_loop")
            /\ UNCHANGED <<loc, wire, rx_buffer, env>>
       ELSE \/ /\ rx_buffer' = rx_buffer \o wire
               /\ wire' = <<>>
               /\ Goto(t, "rx_extract")
               /\ UNCHANGED <<serial_lock, loc, env>>
            \/ /\ env.faults_left > 0
               /\ env' = [env EXCEPT !.faults_left = @ - 1]
               /\ Goto(t, "rx_raised")
               /\ UNCHANGED <<serial_lock, loc, wire, rx_buffer>>
    /\ UNCHANGED <<port, stats_lock, bms_state_lock, callback_lock, tx_queue,
                   rx_queue, tx_stop_event, rx_stop_event, tx_sequence, stats,
                   bms_state, bms_data_callback, hist>>
    /\ UNCHANGED <<sync_vars, codec_vars>>

\* The counter of the else branch of "if bms_data:".
FailedDecodeCounter_frame == "frame_errors"
FailedDecodeCounter == "crc_errors"

RECURSIVE DropGarbage(_)
\* _extract_frame removes what precedes the first start marker.
DropGarbage(buf) ==
    IF buf # <<>> /\ Head(buf).kind = "garbage" THEN DropGarbage(Tail(buf))
    ELSE buf

\* One call of _extract_frame and what the loop does with its result: with
\* no frame the inner loop breaks and the with block ends; a wrong end
\* marker drops the start marker and counts a frame error before that; an
\* extracted frame is decoded and counted as received or as a CRC error.
RxExtract(t) ==
    /\ pc[t] = "rx_extract"
    /\ LET buf == DropGarbage(rx_buffer) IN
         IF buf = <<>>
         THEN /\ rx_buffer' = <<>>
              /\ serial_lock' = Free
              /\ Goto(t, "rx_loop")
              /\ UNCHANGED <<loc, hist>>
         ELSE IF Head(buf).kind = "badeof"
         THEN /\ rx_buffer' = <<Garbage>> \o Tail(buf)
              /\ CallInc(t, "frame_errors", "rx_break")
              /\ UNCHANGED <<serial_lock, hist>>
         ELSE /\ rx_buffer' = Tail(buf)
              /\ serial_lock' = serial_lock
              /\ IF BMSDecode(Head(buf)) # NoRecord
                 THEN /\ pc' = [pc EXCEPT ![t] = "inc_acq"]
                      /\ loc' = [loc EXCEPT ![t].ctr = "rx_count",
                                            ![t].ret = "rx_update",
                                            ![t].cur = BMSDecode(Head(buf))]
                      /\ hist' = [hist EXCEPT !.cb_raised = FALSE,
                                              !.cb_fate = "pending"]
                 ELSE /\ CallInc(t, FailedDecodeCounter, "rx_extract")
                      /\ hist' = hist
    /\ UNCHANGED <<port, stats_lock, bms_state_lock, callback_lock, tx_queue,
                   rx_queue, tx_stop_event, rx_stop_event, tx_sequence, stats,
                   bms_state, bms_data_callback, wire, env>>
    /\ UNCHANGED <<sync_vars, codec_vars>>

\* The end of the with block after _extract_frame returned None, and the
\* sleep between polls.
RxBreak(t) ==
    /\ pc[t] = "rx_break"
    /\ serial_lock' = Free
    /\ Goto(t, "rx_loop")
    /\ UNCHANGED <<port, stats_lock, bms_state_lock, callback_lock, loc,
                   tx_queue, rx_queue, tx_stop_event, rx_stop_event,
                   tx_sequence, stats, bms_state, bms_data_callback, wire,
                   rx_buffer, env, hist>>
    /\ UNCHANGED <<sync_vars, codec_vars>>

\* _update_bms_state: with self._bms_state_lock
RxUpdateAcquire(t) ==
    /\ pc[t] = "rx_update"
    /\ BmsStateLockFree
    /\ bms_state_lock' = t
    /\ loc' = [loc EXCEPT ![t].i = 1]
    /\ Goto(t, "rx_upd")
    /\ UNCHANGED <<port, serial_lock, stats_lock, callback_lock, tx_queue,
                   rx_queue, tx_stop_event, rx_stop_event, tx_sequence, stats,
                   bms_state, bms_data_callback, wire, rx_buffer, env, hist>>
    /\ UNCHANGED <<sync_vars, codec_vars>>

\* _update_bms_state: one assignment to a field of self._bms_state; the lock
\* is released after the last.
RxUpdateField(t) ==
    /\ pc[t] = "rx_upd"
    /\ LET i == loc[t].i IN
         /\ bms_state' = [bms_state EXCEPT
                            ![StateFields[i]] = UpdateValue(i, loc[t].cur)]
         /\ IF i < Len(StateFields)
            THEN /\ loc' = [loc EXCEPT ![t].i = i + 1]
                 /\ UNCHANGED <<pc, bms_state_lock>>
            ELSE /\ loc' = [loc EXCEPT ![t].i = 0]
                 /\ bms_state_lock' = Free
                 /\ Goto(t, "rx_callback")
    /\ UNCHANGED <<port, serial_lock, stats_lock, callback_lock, tx_queue,
                   rx_queue, tx_stop_event, rx_stop_event, tx_sequence, stats,
                   bms_data_callback, wire, rx_buffer, env, hist>>
    /\ UNCHANGED <<sync_vars, codec_vars>>

\* What the receiver does when the callback raised: the except clause logs
\* the error and the code goes on to the queue.
AfterCallback(raised) == "rx_put"

\* with self._callback_lock: the registered callback, if any, is called with
\* the record; it returns or raises.
RxCallback(t) ==
    /\ pc[t] = "rx_callback"
    /\ CallbackLockFree
    /\ \E raised \in BOOLEAN :
         /\ raised => bms_data_callback
         /\ hist' = [hist EXCEPT !.cb_raised = raised]
         /\ Goto(t, AfterCallback(raised))
    /\ UNCHANGED <<port, serial_lock, stats_lock, bms_state_lock,
                   callback_lock, loc, tx_queue, rx_queue, tx_stop_event,
                   rx_stop_event, tx_sequence, stats, bms_state,
                   bms_data_callback, wire, rx_buffer, env>>
    /\ UNCHANGED <<sync_vars, codec_vars>>

\* An exception that leaves the with block of the receiver loop: the lock is
\* released and the handler of the loop counts a receive error.
RxRaised(t) ==
    /\ pc[t] = "rx_raised"
    /\ serial_lock' = Free
    /\ pc' = [pc EXCEPT ![t] = "inc_acq"]
    /\ loc' = [loc EXCEPT ![t].ctr = "rx_errors", ![t].ret = "rx_loop",
                          ![t].cur = None]
    /\ hist' = [hist EXCEPT !.cb_fate = IF @ = "pending" THEN "dropped" ELSE @]
    /\ UNCHANGED <<port, stats_lock, bms_state_lock, callback_lock, tx_queue,
                   rx_queue, tx_stop_event, rx_stop_event, tx_sequence, stats,
                   bms_state, bms_data_callback, wire, rx_buffer, env>>
    /\ UNCHANGED <<sync_vars, codec_vars>>

\* queue.Queue.get_nowait on a queue that is not empty removes the oldest
\* item.
DropOldest_newest(q) == SubSeq(q, 1, Len(q) - 1)
DropOldest(q) == Tail(q)

\* self._rx_queue.put_nowait(bms_data), the first try.
RxPut(t) ==
    /\ pc[t] = "rx_put"
    /\ LET r == PutNowait(rx_queue, loc[t].cur, RxQueueCap) IN
         /\ rx_queue' = r.q
         /\ IF r.ok
            THEN /\ Goto(t, "rx_extract")
                 /\ loc' = [loc EXCEPT ![t].cur = None]
                 /\ hist' = [hist EXCEPT !.cb_fate = "pushed"]
            ELSE /\ Goto(t, "rx_drop")
                 /\ loc' = loc
                 /\ hist' = [hist EXCEPT !.rx_full = rx_queue,
                                         !.rx_raced = FALSE]
    /\ UNCHANGED <<port, serial_lock, stats_lock, bms_state_lock,
                   callback_lock, tx_queue, tx_stop_event, rx_stop_event,
                   tx_sequence, stats, bms_state, bms_data_callback, wire,
                   rx_buffer, env>>
    /\ UNCHANGED <<sync_vars, codec_vars>>

\* except queue.Full: self._rx_queue.get_nowait(); on queue.Empty the
\* record is given up.
RxDrop(t) ==
    /\ pc[t] = "rx_drop"
    /\ IF rx_queue # <<>>
       THEN /\ rx_queue' = DropOldest(rx_queue)
            /\ Goto(t, "rx_put2")
            /\ UNCHANGED <<loc, hist>>
       ELSE /\ rx_queue' = rx_queue
            /\ Goto(t, "rx_extract")
            /\ loc' = [loc EXCEPT ![t].cur = None]
            /\ hist' = [hist EXCEPT !.cb_fate = "dropped"]
    /\ UNCHANGED <<port, serial_lock, stats_lock, bms_state_lock,
                   callback_lock, tx_queue, tx_stop_event, rx_stop_event,
                   tx_sequence, stats, bms_state, bms_data_callback, wire,
                   rx_buffer, env>>
    /\ UNCHANGED <<sync_vars, codec_vars>>

\* self._rx_queue.put_nowait(bms_data) after the get_nowait; a queue.Full
\* here is not caught by "except queue.Empty" and leaves the with block.
RxPut2(t) ==
    /\ pc[t] = "rx_put2"
    /\ LET r == PutNowait(rx_queue, loc[t].cur, RxQueueCap) IN
         /\ rx_queue' = r.q
         /\ IF r.ok
            THEN /\ Goto(t, "rx_extract")
                 /\ loc' = [loc EXCEPT ![t].cur = None]
                 /\ hist' = [hist EXCEPT !.cb_fate = "pushed"]
            ELSE /\ Goto(t, "rx_raised")
                 /\ UNCHANGED <<loc, hist>>
    /\ UNCHANGED <<port, serial_lock, stats_lock, bms_state_lock,
                   callback_lock, tx_queue, tx_stop_event, rx_stop_event,
                   tx_sequence, stats, bms_state, bms_data_callback, wire,
                   rx_buffer, env>>
    /\ UNCHANGED <<sync_vars, codec_vars>>

(***************************************************************************)
(* receive_frame, get_statistics, reset_statistics, set_bms_data_callback  *)
(***************************************************************************)

\* receive_frame: self._rx_queue.get(timeout=timeout) returns the oldest
\* record, or None when the queue stays empty.
ReceiveFrame(t) ==
    /\ pc[t] = "idle"
    /\ rx_queue # <<>>
    /\ rx_queue' = Tail(rx_queue)
    /\ hist' = [hist EXCEPT !.rx_raced =
                   IF pc["rx"] \in {"rx_drop", "rx_put2"} THEN TRUE ELSE @]
    /\ UNCHANGED <<port, serial_lock, stats_lock, bms_state_lock,
                   callback_lock, pc, loc, tx_queue, tx_stop_event,
                   rx_stop_event, tx_sequence, stats, bms_state,
                   bms_data_callback, wire, rx_buffer, env>>
    /\ UNCHANGED <<sync_vars, codec_vars>>

\* reset_statistics: with self._stats_lock, the six counters are set to 0.
ResetStatistics(t) ==
    /\ pc[t] = "idle"
    /\ StatsLockFree
    /\ \E c \in Counters : stats[c] > 0
    /\ stats' = [c \in Counters |-> 0]
    /\ hist' = [hist EXCEPT !.events = [c \in Counters |-> 0]]
    /\ UNCHANGED <<port, serial_lock, stats_lock, bms_state_lock,
                   callback_lock, pc, loc, tx_queue, rx_queue, tx_stop_event,
                   rx_stop_event, tx_sequence, bms_state, bms_data_callback,
                   wire, rx_buffer, env>>
    /\ UNCHANGED <<sync_vars, codec_vars>>

\* set_bms_data_callback: with self._callback_lock, the callback is stored.
SetBmsDataCallback(t) ==
    /\ pc[t] = "idle"
    /\ CallbackLockFree
    /\ ~bms_data_callback
    /\ bms_data_callback' = TRUE
    /\ UNCHANGED <<port, serial_lock, stats_lock, bms_state_lock,
                   callback_lock, pc, loc, tx_queue, rx_queue, tx_stop_event,
                   rx_stop_event, tx_sequence, stats, bms_state, wire,
                   rx_buffer, env, hist>>
    /\ UNCHANGED <<sync_vars, codec_vars>>

(***************************************************************************)
(* Specifications                                                          *)
(***************************************************************************)

NoBudget == [sends |-> 0, frames |-> 0, read_faults |-> 0, kinds |-> {}]

\* No call of _extract_frame or of the codec on its own.
CodecIdle ==
    /\ x_buffer = <<>>
    /\ x_pending = <<>>
    /\ x_yield = <<>>
    /\ x_last = "idle"
    /\ x_counted = 0
    /\ x_given = <<>>
    /\ c_op = "none"
    /\ c_in = <<>>
    /\ c_out = <<>>

\* The synchronous transport on its own.
SyncOnlyInit == SyncInit /\ AsyncInit(NoBudget) /\ CodecIdle

\* The transport between two calls, after any number of encoded requests.
CounterInit ==
    /\ \E counter \in 0..(TxCounterModulus - 1) : SyncFrom(counter)
    /\ AsyncInit(NoBudget)
    /\ CodecIdle

SpecCounter == CounterInit /\ [][SyncNext]_vars

SpecSync == SyncOnlyInit /\ [][SyncNext]_vars

\* The calling thread keeps running: a send_and_receive call under way
\* takes its next step (each of which moves it on in the loop), whatever
\* the device does or fails to do.
s_position == <<s_pc, s_attempt>>

FairSync ==
    /\ SpecSync
    /\ WF_s_position(AttemptSend)
    /\ WF_s_position(AttemptReceive)

\* The steps of the sender loop, of the receiver loop and of the thread
\* that owns the transport.
TxStep ==
    \/ TxLoop("tx") \/ TxAcquire("tx") \/ TxLocked("tx")
    \/ TxWrite("tx") \/ TxFault("tx") \/ TxUnlock("tx")
    \/ IncAcquire("tx") \/ IncWrite("tx")
    \/ OpenAcquire("tx") \/ OpenFailed("tx") \/ CloseAcquire("tx")

RxStep ==
    \/ RxLoop("rx") \/ RxAcquire("rx") \/ RxLocked("rx") \/ RxExtract("rx") \/ RxBreak("rx")
    \/ RxUpdateAcquire("rx") \/ RxUpdateField("rx") \/ RxCallback("rx") \/ RxRaised("rx")
    \/ RxPut("rx") \/ RxDrop("rx") \/ RxPut2("rx")
    \/ IncAcquire("rx") \/ IncWrite("rx")

MainStep ==
    \/ Start \/ StartThreads
    \/ SendFrameBegin("main") \/ SendFrameSeq("main")
    \/ SendFramePut("main") \/ SendFrameFalse("main")
    \/ StopSetTx \/ StopSetRx \/ StopJoin
    \/ IncAcquire("main") \/ IncWrite("main")
    \/ OpenAcquire("main") \/ OpenFailed("main") \/ CloseAcquire("main")

\* The life of the asynchronous transport: start, send_frame up to and
\* beyond a full outbound queue, the sender loop with its write faults, the
\* receiver loop with its read faults, and stop.
LifeBudget == [sends |-> TxQueueCap + MaxSends, frames |-> MaxFrames,
               read_faults |-> MaxReadFaults, kinds |-> {"ok"}]

LifeNext ==
    \/ Start
    \/ StartThreads
    \/ \E t \in Threads : IncAcquire(t)
    \/ \E t \in Threads : IncWrite(t)
    \/ \E t \in Threads : OpenAcquire(t)
    \/ \E t \in Threads : OpenFailed(t)
    \/ \E t \in Threads : CloseAcquire(t)
    \/ TxLoop("tx")
    \/ TxAcquire("tx")
    \/ TxLocked("tx")
    \/ TxWrite("tx")
    \/ TxFault("tx")
    \/ TxUnlock("tx")
    \/ SendFrameBegin("main")
    \/ SendFrameSeq("main")
    \/ SendFramePut("main")
    \/ SendFrameFalse("main")
    \/ StopSetTx
    \/ StopSetRx
    \/ StopJoin
    \/ DeviceSend
    \/ RxLoop("rx")
    \/ RxAcquire("rx")
    \/ RxLocked("rx")
    \/ RxExtract("rx")
    \/ RxUpdateAcquire("rx")
    \/ RxUpdateField("rx")
    \/ RxCallback("rx")
    \/ RxRaised("rx")
    \/ RxPut("rx")

LifeInit == SyncInit /\ AsyncInit(LifeBudget) /\ CodecIdle

Spec == LifeInit /\ [][LifeNext]_vars

\* Every thread that can take a step eventually takes one.
FairSpec == Spec /\ WF_vars(TxStep) /\ WF_vars(RxStep) /\ WF_vars(MainStep)

\* The sending side on its own: one caller sends more frames than the
\* sequence number has values while the sender loop drains the queue.
SequenceBudget == [sends |-> SeqModulus + MaxSends, frames |-> 0,
                   read_faults |-> 0, kinds |-> {}]

SequenceInit == SyncInit /\ AsyncInit(SequenceBudget) /\ CodecIdle

SequenceNext ==
    \/ Start
    \/ StartThreads
    \/ \E t \in Threads : IncAcquire(t)
    \/ \E t \in Threads : IncWrite(t)
    \/ \E t \in Threads : OpenAcquire(t)
    \/ \E t \in Threads : OpenFailed(t)
    \/ TxLoop("tx")
    \/ TxAcquire("tx")
    \/ TxLocked("tx")
    \/ TxWrite("tx")
    \/ TxFault("tx")
    \/ TxUnlock("tx")
    \/ SendFrameBegin("main")
    \/ SendFrameSeq("main")
    \/ SendFramePut("main")
    \/ SendFrameFalse("main")

SpecSequence == SequenceInit /\ [][SequenceNext]_vars

\* A second thread of the application begins to use the started transport.
SecondProducer ==
    /\ pc["main"] = "running"
    /\ pc["aux"] = "idle"
    /\ pc' = [pc EXCEPT !["aux"] = "running"]
    /\ UNCHANGED <<port, serial_lock, stats_lock, bms_state_lock,
                   callback_lock, loc, tx_queue, rx_queue, tx_stop_event,
                   rx_stop_event, tx_sequence, stats, bms_state,
                   bms_data_callback, wire, rx_buffer, env, hist>>
    /\ UNCHANGED <<sync_vars, codec_vars>>

\* Two threads call send_frame at the same time while the sender loop
\* drains the queue.
ProducersBudget == [sends |-> MaxSends + 1, frames |-> 0, read_faults |-> 0,
                    kinds |-> {}]

ProducersInit == SyncInit /\ AsyncInit(ProducersBudget) /\ CodecIdle

ProducersNext ==
    \/ Start
    \/ StartThreads
    \/ SecondProducer
    \/ \E t \in Threads : IncAcquire(t)
    \/ \E t \in Threads : IncWrite(t)
    \/ \E t \in Threads : OpenAcquire(t)
    \/ \E t \in Threads : OpenFailed(t)
    \/ TxLoop("tx")
    \/ TxAcquire("tx")
    \/ TxLocked("tx")
    \/ TxWrite("tx")
    \/ TxFault("tx")
    \/ TxUnlock("tx")
    \/ \E t \in {"main", "aux"} : SendFrameBegin(t)
    \/ \E t \in {"main", "aux"} : SendFrameSeq(t)
    \/ \E t \in {"main", "aux"} : SendFramePut(t)
    \/ \E t \in {"main", "aux"} : SendFrameFalse(t)

SpecProducers == ProducersInit /\ [][ProducersNext]_vars

\* The owner calls start() more than once, with or without a stop() in
\* between, and sends a frame.
RestartBudget == [sends |-> MaxSends, frames |-> 0, read_faults |-> 0,
                  kinds |-> {}]

RestartInit == SyncInit /\ AsyncInit(RestartBudget) /\ CodecIdle

RestartNext ==
    \/ Start
    \/ StartAgain
    \/ StartThreads
    \/ \E t \in Threads : IncAcquire(t)
    \/ \E t \in Threads : IncWrite(t)
    \/ \E t \in Threads : OpenAcquire(t)
    \/ \E t \in Threads : OpenFailed(t)
    \/ \E t \in Threads : CloseAcquire(t)
    \/ \E t \in Senders : TxLoop(t)
    \/ \E t \in Senders : TxAcquire(t)
    \/ \E t \in Senders : TxLocked(t)
    \/ \E t \in Senders : TxWrite(t)
    \/ \E t \in Senders : TxFault(t)
    \/ \E t \in Senders : TxUnlock(t)
    \/ SendFrameBegin("main")
    \/ SendFrameSeq("main")
    \/ SendFramePut("main")
    \/ SendFrameFalse("main")
    \/ StopSetTx
    \/ StopSetRx
    \/ StopJoin
    \/ \E t \in Receivers : RxLoop(t)
    \/ \E t \in Receivers : RxAcquire(t)
    \/ \E t \in Receivers : RxLocked(t)
    \/ \E t \in Receivers : RxExtract(t)

SpecRestart == RestartInit /\ [][RestartNext]_vars

\* The receiving side: the device sends more frames than the inbound queue
\* holds, a callback may be registered and may raise, and a consumer thread
\* calls receive_frame.
InboundBudget == [sends |-> 0, frames |-> RxQueueCap + MaxFrames,
                  read_faults |-> MaxReadFaults, kinds |-> {"ok"}]

InboundNext ==
    \/ Start
    \/ StartThreads
    \/ \E t \in Threads : IncAcquire(t)
    \/ \E t \in Threads : IncWrite(t)
    \/ \E t \in Threads : OpenAcquire(t)
    \/ \E t \in Threads : OpenFailed(t)
    \/ DeviceSend
    \/ RxLoop("rx")
    \/ RxAcquire("rx")
    \/ RxLocked("rx")
    \/ RxExtract("rx")
    \/ RxUpdateAcquire("rx")
    \/ RxUpdateField("rx")
    \/ RxCallback("rx")
    \/ RxRaised("rx")
    \/ RxPut("rx")
    \/ RxDrop("rx")
    \/ RxPut2("rx")
    \/ ReceiveFrame("aux")
    \/ SetBmsDataCallback("aux")

InboundInit == SyncInit /\ AsyncInit(InboundBudget) /\ CodecIdle

SpecInbound == InboundInit /\ [][InboundNext]_vars

\* The same with frames of which some fail the checksum.
MixedBudget == [sends |-> 0, frames |-> RxQueueCap + MaxFrames,
                read_faults |-> MaxReadFaults, kinds |-> {"ok", "badcrc"}]

MixedInit == SyncInit /\ AsyncInit(MixedBudget) /\ CodecIdle

SpecMixed == MixedInit /\ [][InboundNext]_vars

\* The shared status: the receiver updates it from frame after frame while
\* the owner thread and one more thread call get_bms_state.
StatusBudget == [sends |-> 0, frames |-> MaxFrames + 1, read_faults |-> 0,
                 kinds |-> {"ok"}]

StatusNext ==
    \/ Start
    \/ StartThreads
    \/ \E t \in Threads : IncAcquire(t)
    \/ \E t \in Threads : IncWrite(t)
    \/ \E t \in Threads : OpenAcquire(t)
    \/ \E t \in Threads : OpenFailed(t)
    \/ DeviceSend
    \/ RxLoop("rx")
    \/ RxAcquire("rx")
    \/ RxLocked("rx")
    \/ RxExtract("rx")
    \/ RxUpdateAcquire("rx")
    \/ RxUpdateField("rx")
    \/ RxCallback("rx")
    \/ RxPut("rx")
    \/ \E t \in {"main", "aux"} : GetBmsState(t)

StatusInit == SyncInit /\ AsyncInit(StatusBudget) /\ CodecIdle

SpecStatus == StatusInit /\ [][StatusNext]_vars

\* The statistics: the sender loop, the receiver loop (frames of every
\* kind, read faults) and send_frame count events while one more thread
\* calls reset_statistics.
StatsBudget == [sends |-> MaxSends + 1, frames |-> 1,
                read_faults |-> MaxReadFaults, kinds |-> FrameKinds]

StatsNext ==
    \/ Start
    \/ StartThreads
    \/ \E t \in Threads : IncAcquire(t)
    \/ \E t \in Threads : IncWrite(t)
    \/ \E t \in Threads : OpenAcquire(t)
    \/ \E t \in Threads : OpenFailed(t)
    \/ TxLoop("tx")
    \/ TxAcquire("tx")
    \/ TxLocked("tx")
    \/ TxWrite("tx")
    \/ TxFault("tx")
    \/ TxUnlock("tx")
    \/ SendFrameBegin("main")
    \/ SendFrameSeq("main")
    \/ SendFramePut("main")
    \/ SendFrameFalse("main")
    \/ DeviceSend
    \/ RxLoop("rx")
    \/ RxAcquire("rx")
    \/ RxLocked("rx")
    \/ RxExtract("rx")
    \/ RxBreak("rx")
    \/ RxUpdateAcquire("rx")
    \/ RxUpdateField("rx")
    \/ RxCallback("rx")
    \/ RxRaised("rx")
    \/ RxPut("rx")
    \/ ResetStatistics("aux")

StatsInit == SyncInit /\ AsyncInit(StatsBudget) /\ CodecIdle

SpecStats == StatsInit /\ [][StatsNext]_vars

(***************************************************************************)
(* Bytes, CRC16-CCITT and the frame layout (protocol.py)                   *)
(***************************************************************************)

\* The two frame markers as bytes.
SofByte == SOF % ByteModulus
EofByte == EOF % ByteModulus

RECURSIVE Xor(_, _)
\* a ^ b on non-negative integers.
Xor(a, b) ==
    IF a = 0 THEN b
    ELSE IF b = 0 THEN a
    ELSE 2 * Xor(a \div 2, b \div 2) + (((a % 2) + (b % 2)) % 2)

RECURSIVE CrcShift(_, _)
\* The inner loop of crc16_ccitt, n rounds: shift left, xor the polynomial
\* in when the top bit was set, keep two bytes.
CrcShift(crc, n) ==
    IF n = 0 THEN crc
    ELSE LET shifted == (2 * crc) % ShortModulus
             next == IF crc >= ShortModulus \div 2
                     THEN Xor(shifted, CrcPolynomial % ShortModulus)
                     ELSE shifted
         IN CrcShift(next, n - 1)

\* The inner loop run once per bit of a byte, for every two-byte value.
CrcShifted == [crc \in 0..MaxShort |-> CrcShift(crc, ByteBits)]

\* One pass of the outer loop of crc16_ccitt: crc ^= byte << 8, then the
\* inner loop, once per bit of a byte.
CrcByte ==
    [crc \in Nat |->
        [byte \in Nat |-> CrcShifted[Xor(crc, byte * ByteModulus)]]]

\* The outer loop of crc16_ccitt over the bytes lo..hi of data, entered
\* with the value crc (a = <<crc, data, lo, hi>>): the loop over lo..hi is
\* the loop over the first half followed by the loop over the second half.
CrcRange[a \in Nat \X Seq(Nat) \X Nat \X Nat] ==
    LET crc == a[1]
        data == a[2]
        lo == a[3]
        hi == a[4]
        mid == (lo + hi) \div 2
    IN IF lo > hi THEN crc
       ELSE IF lo = hi THEN CrcByte[crc][data[lo]]
       ELSE CrcRange[<<CrcRange[<<crc, data, lo, mid>>], data, mid + 1, hi>>]

\* The outer loop over the first n bytes of data, from the initial value
\* 0xFFFF.
CrcUpTo(data, n) == CrcRange[<<MaxShort, data, 1, n>>]

crc16_ccitt_header(data) == CrcUpTo(data, 4)

\* crc16_ccitt(data)
crc16_ccitt(data) == CrcUpTo(data, Len(data))

RECURSIVE PackLE(_, _)
\* struct.pack of a non-negative value into n bytes, little-endian.
PackLE(v, n) ==
    IF n = 0 THEN <<>>
    ELSE <<v % ByteModulus>> \o PackLE(v \div ByteModulus, n - 1)

RECURSIVE UnpackLE(_)
\* struct.unpack of little-endian bytes into a non-negative value.
UnpackLE(bytes) ==
    IF bytes = <<>> THEN 0
    ELSE Head(bytes) + ByteModulus * UnpackLE(Tail(bytes))

\* expected_size = 1 + 4 + length + 2 + 1
ExpectedSize_short(length) == 1 + 4 + length + 2
ExpectedSize(length) == 1 + 4 + length + 2 + 1

\* SOF | msg_id | len | seq | payload | CRC16 | EOF, the checksum taken over
\* msg_id | len | seq | payload.
BuildFrame(msg_id, seq, payload) ==
    LET crc_data == <<msg_id, Len(payload)>> \o PackLE(seq % ShortModulus, 2)
                    \o payload
    IN <<SofByte>> \o crc_data \o PackLE(crc16_ccitt(crc_data), 2)
       \o <<EofByte>>

(***************************************************************************)
(* _extract_frame, byte by byte                                            *)
(***************************************************************************)

\* None, or b'' (the receiver loop tests "if not frame").
NoFrame == <<>>

\* The index of the first start marker in the buffer, 0 when there is none.
FirstSof(buf) ==
    IF \E i \in 1..Len(buf) : buf[i] = SofByte
    THEN CHOOSE i \in 1..Len(buf) :
            /\ buf[i] = SofByte
            /\ \A j \in 1..(i - 1) : buf[j] # SofByte
    ELSE 0

\* self._rx_buffer.pop(0) on a buffer that begins with the start marker.
PopMarker_candidate(b) == SubSeq(b, ExpectedSize(b[3]) + 1, Len(b))
PopMarker(b) == Tail(b)

\* self._rx_buffer[:] = self._rx_buffer[expected_size:]
Remainder_overlap(b, expected_size) == SubSeq(b, expected_size, Len(b))
Remainder(b, expected_size) == SubSeq(b, expected_size + 1, Len(b))

\* _extract_frame on the buffer buf: the frame it returns (or NoFrame), the
\* buffer it leaves and the number it adds to the frame-error counter.
ExtractFrame(buf) ==
    LET i == FirstSof(buf) IN
    IF i = 0
    THEN [frame |-> NoFrame, buffer |-> <<>>, frame_errors |-> 0]
    ELSE LET b == SubSeq(buf, i, Len(buf)) IN
         IF Len(b) < 7
         THEN [frame |-> NoFrame, buffer |-> b, frame_errors |-> 0]
         ELSE LET expected_size == ExpectedSize(b[3]) IN
              IF Len(b) < expected_size
              THEN [frame |-> NoFrame, buffer |-> b, frame_errors |-> 0]
              ELSE IF b[expected_size] # EofByte
              THEN [frame |-> NoFrame, buffer |-> PopMarker(b),
                    frame_errors |-> 1]
              ELSE [frame |-> SubSeq(b, 1, expected_size),
                    buffer |-> Remainder(b, expected_size),
                    frame_errors |-> 0]

RECURSIVE SeqsUpTo(_, _)
\* The sequences over S of length at most n.
SeqsUpTo(S, n) ==
    IF n = 0 THEN {<<>>}
    ELSE LET shorter == SeqsUpTo(S, n - 1) IN
         shorter \cup {Append(q, x) : q \in shorter, x \in S}

\* Runs of bytes that are no frame.
GarbageRuns == SeqsUpTo({0, SofByte, EofByte}, MaxGarbage)

\* Well-formed status frames as the device sends them, with payloads that
\* may contain the marker bytes.
DeviceFrames(seqs) ==
    {BuildFrame(MSG_ID_BMS_APP, q, pl) :
        q \in seqs, pl \in SeqsUpTo({SofByte, EofByte}, MaxPayload)}

\* No state of the transports is involved when _extract_frame or the codec
\* is called on its own.
TransportsIdle == SyncInit /\ AsyncInit(NoBudget)

\* The receive buffer holds g1 ++ f1 ++ g2 ++ f2.
ResyncInit ==
    /\ TransportsIdle
    /\ \E g1 \in GarbageRuns, g2 \in GarbageRuns :
       \E f1 \in DeviceFrames({0}), f2 \in DeviceFrames({0}) :
          /\ x_given = <<g1, f1, g2, f2>>
          /\ x_buffer = g1 \o f1 \o g2 \o f2
    /\ x_pending = <<>>
    /\ x_yield = <<>>
    /\ x_last = "idle"
    /\ x_counted = 0
    /\ c_op = "none"
    /\ c_in = <<>>
    /\ c_out = <<>>

\* One more call of _extract_frame, as long as calling changes anything: a
\* call that returns no frame and leaves the buffer as it is will do the
\* same next time.
ExtractCall ==
    /\ x_last # "stalled"
    /\ LET r == ExtractFrame(x_buffer) IN
         /\ x_buffer' = r.buffer
         /\ x_yield' = IF r.frame # NoFrame THEN Append(x_yield, r.frame)
                       ELSE x_yield
         /\ x_last' = IF r.frame # NoFrame THEN "frame"
                      ELSE IF r.buffer = x_buffer THEN "stalled"
                      ELSE "none"
         /\ x_counted' = r.frame_errors
    /\ UNCHANGED <<x_pending, x_given, c_op, c_in, c_out>>
    /\ UNCHANGED <<sync_vars, async_vars>>

SpecResync == ResyncInit /\ [][ExtractCall]_vars

\* The buffer holds a run of garbage, one frame and another run of garbage.
OneFrameInit ==
    /\ TransportsIdle
    /\ \E g1 \in GarbageRuns, g2 \in GarbageRuns :
       \E f1 \in DeviceFrames({0}) :
          /\ x_given = <<g1, f1, g2>>
          /\ x_buffer = g1 \o f1 \o g2
    /\ x_pending = <<>>
    /\ x_yield = <<>>
    /\ x_last = "idle"
    /\ x_counted = 0
    /\ c_op = "none"
    /\ c_in = <<>>
    /\ c_out = <<>>

SpecExtract == OneFrameInit /\ [][ExtractCall]_vars

\* One frame is about to arrive, byte by byte, in an empty buffer.
FeedInit ==
    /\ TransportsIdle
    /\ \E f \in DeviceFrames({0, MaxShort}) :
          /\ x_given = <<f>>
          /\ x_pending = f
    /\ x_buffer = <<>>
    /\ x_yield = <<>>
    /\ x_last = "idle"
    /\ x_counted = 0
    /\ c_op = "none"
    /\ c_in = <<>>
    /\ c_out = <<>>

\* The port delivers one more byte, the receiver appends it to the buffer
\* and calls _extract_frame.
FeedByte ==
    /\ x_pending # <<>>
    /\ LET r == ExtractFrame(Append(x_buffer, Head(x_pending))) IN
         /\ x_buffer' = r.buffer
         /\ x_yield' = IF r.frame # NoFrame THEN Append(x_yield, r.frame)
                       ELSE x_yield
         /\ x_last' = IF r.frame # NoFrame THEN "frame" ELSE "none"
         /\ x_counted' = r.frame_errors
    /\ x_pending' = Tail(x_pending)
    /\ UNCHANGED <<x_given, c_op, c_in, c_out>>
    /\ UNCHANGED <<sync_vars, async_vars>>

SpecFeed == FeedInit /\ [][FeedByte]_vars

(***************************************************************************)
(* AFEMeasFrame.encode, AFEMeasFrame.decode, BMSAppFrame.decode            *)
(***************************************************************************)

\* An exception leaving the function.
Raised(e) == [error |-> e]

\* The frame a function returns.
Returned(bytes) == [frame |-> bytes]

\* numpy astype(np.uint16): the value modulo the width.
AsUnsignedShort(v) == ((v % ShortModulus) + ShortModulus) % ShortModulus

\* numpy astype(np.int16): the value wrapped into the signed range.
AsSignedShort(v) ==
    LET u == AsUnsignedShort(v) IN
    IF u > MaxSignedShort THEN u - ShortModulus ELSE u

\* struct.pack of a signed value into n bytes (two's complement).
PackSigned(v, n, modulus) == PackLE(IF v < 0 THEN v + modulus ELSE v, n)

\* struct.unpack of n bytes as a signed value.
UnpackSigned_unsigned(bytes, modulus) == UnpackLE(bytes)
UnpackSigned(bytes, modulus) ==
    LET u == UnpackLE(bytes) IN
    IF u >= modulus \div 2 THEN u - modulus ELSE u

RECURSIVE PackShorts(_)
\* The H items of a format: two bytes each.
PackShorts(values) ==
    IF values = <<>> THEN <<>>
    ELSE PackLE(Head(values), 2) \o PackShorts(Tail(values))

RECURSIVE PackSignedShorts(_)
\* The h items of a format.
PackSignedShorts(values) ==
    IF values = <<>> THEN <<>>
    ELSE PackSigned(Head(values), 2, ShortModulus)
         \o PackSignedShorts(Tail(values))

\* PAYLOAD_SIZE of AFEMeasFrame: I, H per cell, h per cell, i, I, I.
AfePayloadSize == 4 + NumCells * 2 + NumCells * 2 + 4 + 4 + 4

\* The size of BMSAppFrame.PAYLOAD_FORMAT: I H H i I, H per cell, B per
\* fault code, I.
BmsPayloadSize == 4 + 2 + 2 + 4 + 4 + NumCells * 2 + NumFaultCodes + 4

\* struct.pack accepts the scalar arguments of the payload format: each is
\* within the range of its item.
StructAccepts(p) ==
    /\ p.timestamp_ms \in 0..MaxLong
    /\ p.pack_current_ma \in MinSignedLong..MaxSignedLong
    /\ p.pack_voltage_mv \in 0..MaxLong
    /\ p.status_flags \in 0..MaxLong

\* AFEMeasFrame.encode(timestamp_ms, ..., sequence): the frame, or the
\* exception raised.
AFEMeasFrame_encode(p) ==
    IF Len(p.vcell_mv) # NumCells THEN Raised("ValueError")
    ELSE IF Len(p.tcell_cc) # NumCells THEN Raised("ValueError")
    ELSE IF ~StructAccepts(p) THEN Raised("struct.error")
    ELSE LET payload ==
                 PackLE(p.timestamp_ms, 4)
                 \o PackShorts([i \in 1..NumCells |->
                                   AsUnsignedShort(p.vcell_mv[i])])
                 \o PackSignedShorts([i \in 1..NumCells |->
                                         AsSignedShort(p.tcell_cc[i])])
                 \o PackSigned(p.pack_current_ma, 4, LongModulus)
                 \o PackLE(p.pack_voltage_mv, 4)
                 \o PackLE(p.status_flags, 4)
         IN Returned(BuildFrame(MSG_ID_AFE_MEAS, p.sequence, payload))

\* The checks both decoders make before unpacking the payload: TRUE when
\* the frame gets through them.
HeaderAccepts(frame, msg_id) ==
    /\ Len(frame) >= 7
    /\ frame[1] = SofByte
    /\ frame[Len(frame)] = EofByte
    /\ frame[2] = msg_id
    /\ Len(frame) = ExpectedSize(frame[3])
    /\ crc16_ccitt(SubSeq(frame, 2, 5 + frame[3]))
          = UnpackLE(SubSeq(frame, 6 + frame[3], 7 + frame[3]))

\* frame[5:5+length]
PayloadOf(frame) == SubSeq(frame, 6, 5 + frame[3])

\* The item of n bytes at byte offset off of a payload.
Item(payload, off, n) == SubSeq(payload, off + 1, off + n)

\* AFEMeasFrame.decode: None, the record, or struct.error from the unpack
\* of a payload that is not PAYLOAD_SIZE bytes long.
AFEMeasFrame_decode(frame) ==
    IF ~HeaderAccepts(frame, MSG_ID_AFE_MEAS) THEN NoRecord
    ELSE LET payload == PayloadOf(frame) IN
         IF Len(payload) # AfePayloadSize THEN Raised("struct.error")
         ELSE [timestamp_ms |-> UnpackLE(Item(payload, 0, 4)),
               vcell_mv |-> [i \in 1..NumCells |->
                   UnpackLE(Item(payload, 4 + 2 * (i - 1), 2))],
               tcell_cc |-> [i \in 1..NumCells |->
                   UnpackSigned(Item(payload, 4 + 2 * NumCells + 2 * (i - 1), 2),
                                ShortModulus)],
               pack_current_ma |->
                   UnpackSigned(Item(payload, 4 + 4 * NumCells, 4), LongModulus),
               pack_voltage_mv |-> UnpackLE(Item(payload, 8 + 4 * NumCells, 4)),
               status_flags |-> UnpackLE(Item(payload, 12 + 4 * NumCells, 4)),
               sequence |-> UnpackLE(SubSeq(frame, 4, 5))]

\* BMSAppFrame.decode: None, also when the unpack raises, or the record
\* with its convenience fields.
BMSAppFrame_decode(frame) ==
    IF ~HeaderAccepts(frame, MSG_ID_BMS_APP) THEN NoRecord
    ELSE LET payload == PayloadOf(frame) IN
         IF Len(payload) # BmsPayloadSize THEN NoRecord
         ELSE LET mosfet_status == UnpackLE(Item(payload, 4, 2))
                  protection_flags == UnpackLE(Item(payload, 6, 2))
              IN
              [timestamp_ms |-> UnpackLE(Item(payload, 0, 4)),
               mosfet_status |-> mosfet_status,
               protection_flags |-> protection_flags,
               bms_current_ma |->
                   UnpackSigned(Item(payload, 8, 4), LongModulus),
               bms_voltage_mv |-> UnpackLE(Item(payload, 12, 4)),
               balancing_status |-> [i \in 1..NumCells |->
                   UnpackLE(Item(payload, 16 + 2 * (i - 1), 2))],
               fault_codes |-> [i \in 1..NumFaultCodes |->
                   payload[16 + 2 * NumCells + i]],
               bms_state_flags |->
                   UnpackLE(Item(payload, 16 + 2 * NumCells + NumFaultCodes, 4)),
               sequence |-> UnpackLE(SubSeq(frame, 4, 5)),
               mosfet_charge |-> (mosfet_status % 2 = 1),
               mosfet_discharge |-> ((mosfet_status \div 2) % 2 = 1),
               protection_active |-> (protection_flags # 0)]

\* A payload of n bytes, all equal to b.
Filled(n, b) == [i \in 1..n |-> b]

\* Frames with a right checksum: of either message id or of an unknown one,
\* with a payload of the right size for one of the decoders, or shorter.
SoundFrames ==
    {BuildFrame(m, q, Filled(n, b)) :
        m \in {MSG_ID_AFE_MEAS, MSG_ID_BMS_APP, 3}, q \in {0, MaxShort},
        n \in {0, 1, AfePayloadSize, BmsPayloadSize}, b \in {0, MaxByte}}

\* The byte strings given to the decoders: sound frames, their proper
\* prefixes, and sound frames with one byte changed.
DecoderInputs ==
    SoundFrames
    \cup UNION {{SubSeq(f, 1, n) : n \in 0..(Len(f) - 1)} : f \in SoundFrames}
    \cup UNION {{[f EXCEPT ![i] = (f[i] + 1) % ByteModulus] : i \in 1..Len(f)} :
                  f \in SoundFrames}

\* A decoder is about to be called on some byte string.
DecodeInit ==
    /\ TransportsIdle
    /\ x_buffer = <<>>
    /\ x_pending = <<>>
    /\ x_yield = <<>>
    /\ x_last = "idle"
    /\ x_counted = 0
    /\ x_given = <<>>
    /\ c_op = "none"
    /\ c_in \in DecoderInputs
    /\ c_out = <<>>

\* The frame a decoder is called on: the argument, or the frame that
\* encode has just returned.
FrameToDecode == IF c_op = "encode" THEN c_out.frame ELSE c_in

\* AFEMeasFrame.decode is called.
DecodeAfe ==
    /\ \/ c_op = "none"
       \/ c_op = "corrupt"
       \/ c_op = "encode" /\ c_out # Raised("ValueError")
                          /\ c_out # Raised("struct.error")
    /\ c_op' = "AFEMeasFrame.decode"
    /\ c_out' = AFEMeasFrame_decode(FrameToDecode)
    /\ UNCHANGED <<x_buffer, x_pending, x_yield, x_last, x_counted, x_given,
                   c_in>>
    /\ UNCHANGED <<sync_vars, async_vars>>

\* BMSAppFrame.decode is called.
DecodeBms ==
    /\ c_op = "none"
    /\ c_op' = "BMSAppFrame.decode"
    /\ c_out' = BMSAppFrame_decode(c_in)
    /\ UNCHANGED <<x_buffer, x_pending, x_yield, x_last, x_counted, x_given,
                   c_in>>
    /\ UNCHANGED <<sync_vars, async_vars>>

DecodeNext ==
    \/ DecodeAfe
    \/ DecodeBms

SpecDecode == DecodeInit /\ [][DecodeNext]_vars

\* A measurement record with a sequence number: the arguments of encode.
Measurement(ts, vcell, tcell, current, voltage, flags, seq) ==
    [timestamp_ms |-> ts, vcell_mv |-> vcell, tcell_cc |-> tcell,
     pack_current_ma |-> current, pack_voltage_mv |-> voltage,
     status_flags |-> flags, sequence |-> seq]

\* The arrays of n elements over the values of S.
Arrays(S, n) == [1..n -> S]

\* Arguments for encode, in range and out of range: scalars at and beyond
\* both ends of their items, arrays of the right length with values at and
\* beyond both ends, and arrays one element short.
AnyMeasurements ==
    {Measurement(ts, vcell, tcell, current, voltage, flags, seq) :
        ts \in {0, 0 - 1, MaxLong + 1},
        vcell \in Arrays({0, 0 - 1, MaxShort + 1}, NumCells)
                  \cup Arrays({0}, NumCells - 1),
        tcell \in Arrays({0, MinSignedShort - 1, MaxSignedShort + 1}, NumCells)
                  \cup Arrays({0}, NumCells - 1),
        current \in {0, MinSignedLong - 1, MaxSignedLong + 1},
        voltage \in {0, MaxLong + 1},
        flags \in {0, MaxLong + 1},
        seq \in {0}}

\* Records with every field within its declared range, at the ends of the
\* ranges.
ValidMeasurements ==
    {Measurement(ts, vcell, tcell, current, voltage, flags, seq) :
        ts \in {0, MaxLong},
        vcell \in Arrays({0, MaxShort}, NumCells),
        tcell \in Arrays({MinSignedShort, 0 - 1, MaxSignedShort}, NumCells),
        current \in {MinSignedLong, MaxSignedLong},
        voltage \in {0, MaxLong},
        flags \in {1, MaxLong},
        seq \in {0, MaxShort}}

\* encode is about to be called with the arguments c_in.
EncodeFrom(inputs) ==
    /\ TransportsIdle
    /\ x_buffer = <<>>
    /\ x_pending = <<>>
    /\ x_yield = <<>>
    /\ x_last = "idle"
    /\ x_counted = 0
    /\ x_given = <<>>
    /\ c_op = "none"
    /\ c_in \in inputs
    /\ c_out = <<>>

\* AFEMeasFrame.encode is called.
Encode ==
    /\ c_op = "none"
    /\ c_op' = "encode"
    /\ c_out' = AFEMeasFrame_encode(c_in)
    /\ UNCHANGED <<x_buffer, x_pending, x_yield, x_last, x_counted, x_given,
                   c_in>>
    /\ UNCHANGED <<sync_vars, async_vars>>

EncodeInit == EncodeFrom(AnyMeasurements)

SpecEncode == EncodeInit /\ [][Encode]_vars

RoundTripInit == EncodeFrom(ValidMeasurements)

\* encode, then decode of what it returned.
RoundTripNext ==
    \/ Encode
    \/ c_op = "encode" /\ DecodeAfe

SpecRoundTrip == RoundTripInit /\ [][RoundTripNext]_vars

\* byte ^ (1 << k)
FlipBit(byte, k) == Xor(byte, 2^k)

\* The positions of msg_id, len, seq and the payload in a frame.
HeaderAndPayload(frame) == 2..(5 + frame[3])

\* Between encode and decode one bit of the header or of the payload of
\* the frame is flipped; x_given keeps the frame as encode returned it.
Corrupt ==
    /\ c_op = "encode"
    /\ c_out # Raised("ValueError")
    /\ c_out # Raised("struct.error")
    /\ \E i \in HeaderAndPayload(c_out.frame), k \in 0..(ByteBits - 1) :
         c_in' = [c_out.frame EXCEPT ![i] = FlipBit(@, k)]
    /\ x_given' = c_out.frame
    /\ c_op' = "corrupt"
    /\ UNCHANGED <<x_buffer, x_pending, x_yield, x_last, x_counted, c_out>>
    /\ UNCHANGED <<sync_vars, async_vars>>

\* Records with every field at an end of its range, the arrays filled with
\* one value.
UniformMeasurements ==
    {Measurement(ts, [i \in 1..NumCells |-> vcell],
                 [i \in 1..NumCells |-> tcell], current, MaxLong, 1, seq) :
        ts \in {0, MaxLong},
        vcell \in {0, MaxShort},
        tcell \in {MinSignedShort, 0 - 1},
        current \in {MinSignedLong, MaxSignedLong},
        seq \in {0, MaxShort}}

CorruptInit == EncodeFrom(UniformMeasurements)

\* encode, one flipped bit, decode.
CorruptNext ==
    \/ Encode
    \/ Corrupt
    \/ c_op = "corrupt" /\ DecodeAfe

SpecCorrupt == CorruptInit /\ [][CorruptNext]_vars

(***************************************************************************)
(* One poll cycle of _rx_worker, byte by byte                              *)
(***************************************************************************)

\* The extraction loop of the receiver: _extract_frame is called until it
\* returns no frame; the frames it returned, in order, and the buffer left.
Drain[buf \in Seq(Nat)] ==
    LET r == ExtractFrame(buf) IN
    IF r.frame = NoFrame
    THEN [frames |-> <<>>, buffer |-> r.buffer,
          frame_errors |-> r.frame_errors]
    ELSE LET rest == Drain[r.buffer] IN
         [frames |-> <<r.frame>> \o rest.frames, buffer |-> rest.buffer,
          frame_errors |-> rest.frame_errors]

\* BMSAppFrame.decode accepts the frame.
IsStatusFrame == [frame \in Seq(Nat) |-> BMSAppFrame_decode(frame) # NoRecord]

\* The payloads of the status frames on the line: all zero, all start
\* markers, and one whose first four bytes are an end marker, a start
\* marker, a zero and the payload size.
StatusPayloads ==
    {Filled(BmsPayloadSize, 0),
     Filled(BmsPayloadSize, SofByte),
     <<EofByte, SofByte, 0, BmsPayloadSize>> \o Filled(BmsPayloadSize - 4, 0)}

\* Runs of bytes that are no frame: zeros and start markers, and a start
\* marker followed by a zero and a small length byte.
StreamGarbage == SeqsUpTo({0, SofByte}, MaxGarbage) \cup {<<SofByte, 0, 1>>}

\* The status frame the device sends next: x_given holds the garbage the
\* line began with, the payload of the frames and the next sequence number.
NextStatusFrame == BuildFrame(MSG_ID_BMS_APP, x_given[3], x_given[2])

\* The bytes the port delivers next: the rest of what is under way, or the
\* next frame, back to back.
Line == IF x_pending = <<>> THEN NextStatusFrame ELSE x_pending

\* The extraction loop on the buffer buf, every frame it yields given to
\* BMSAppFrame.decode: the frames, the buffer left, and whether one of the
\* frames was a valid status frame (rx_count += 1).
Cycle ==
    [buf \in Seq(Nat) |->
        LET r == Drain[buf] IN
        [frames |-> r.frames,
         buffer |-> r.buffer,
         frame_errors |-> r.frame_errors,
         last |-> IF \E i \in 1..Len(r.frames) : IsStatusFrame[r.frames[i]]
                  THEN "delivered"
                  ELSE IF r.frames # <<>> THEN "rejected" ELSE "none"]]

\* One poll cycle: the n bytes available are read into the buffer and the
\* extraction loop runs.  x_yield holds the frames of this cycle.
PollCycle(n) ==
    LET r == Cycle[x_buffer \o SubSeq(Line, 1, n)] IN
    /\ x_buffer' = r.buffer
    /\ x_yield' = r.frames
    /\ x_last' = r.last
    /\ x_counted' = r.frame_errors
    /\ x_pending' = SubSeq(Line, n + 1, Len(Line))
    /\ x_given' = IF x_pending = <<>>
                  THEN [x_given EXCEPT ![3] = (@ + 1) % SeqModulus]
                  ELSE x_given
    /\ UNCHANGED <<c_op, c_in, c_out>>
    /\ UNCHANGED <<sync_vars, async_vars>>

\* The line begins with a run of garbage and then carries status frames
\* back to back, for ever.
StreamInit ==
    /\ TransportsIdle
    /\ \E g \in StreamGarbage, payload \in StatusPayloads :
          /\ x_given = <<g, payload, 0>>
          /\ x_pending = g
    /\ x_buffer = <<>>
    /\ x_yield = <<>>
    /\ x_last = "idle"
    /\ x_counted = 0
    /\ c_op = "none"
    /\ c_in = <<>>
    /\ c_out = <<>>

\* The receiver polls after every byte.
StreamPoll == PollCycle(1)

\* The receiver loop keeps polling.
SpecStream == StreamInit /\ [][StreamPoll]_vars /\ WF_vars(StreamPoll)

\* The port holds a run of garbage followed by one whole status frame.
CycleInit ==
    /\ TransportsIdle
    /\ \E g \in StreamGarbage \cup GarbageRuns, payload \in StatusPayloads :
          /\ x_given = <<g, payload, 1>>
          /\ x_pending = g \o BuildFrame(MSG_ID_BMS_APP, 0, payload)
    /\ x_buffer = <<>>
    /\ x_yield = <<>>
    /\ x_last = "idle"
    /\ x_counted = 0
    /\ c_op = "none"
    /\ c_in = <<>>
    /\ c_out = <<>>

\* One poll cycle that reads everything the port holds.
PollAll ==
    /\ x_last = "idle"
    /\ PollCycle(Len(x_pending))

SpecCycle == CycleInit /\ [][PollAll]_vars

(***************************************************************************)
(* Properties of SequentialXBBUART                                         *)
(***************************************************************************)

\* The last send_and_receive call has ended (returned or terminated the
\* process).
SyncEnded == s_result \in {"true", "false", "exit"}

\* Every attempt of the current call so far had its write accepted and then
\* saw no response within the timeout.
AllSilent == \A i \in 1..Len(s_hist) : s_hist[i].kind = "timeout"

NoValidResponse == \A i \in 1..Len(s_hist) : s_hist[i].kind # "valid"

C2_ExhaustionAlwaysFatal ==
    (SyncEnded /\ Len(s_hist) = max_retries /\ NoValidResponse) =>
        (s_pc = "exited" /\ s_result = "exit")

\* C3: the first attempt whose response decodes and validates ends the call:
\* the decoded status is the stored status, the call has returned True, and
\* the request was written once per attempt up to that one and not again.
C3_SuccessReturnsAtOnce ==
    \A i \in 1..Len(s_hist) :
        s_hist[i].kind = "valid" =>
            /\ i = Len(s_hist)
            /\ s_pc = "idle"
            /\ s_result = "true"
            /\ s_bms_state = s_hist[i].data
            /\ s_writes = i
            /\ s_attempt = i

C3_Witness ==
    /\ s_result = "true"
    /\ Len(s_hist) = 2
    /\ s_hist[1].kind = "invalid"
    /\ s_hist[2].kind = "valid"
    /\ s_bms_state = s_hist[2].data
    /\ s_writes = 2

\* C18: every status stored during a call was sent by the device in answer
\* to a request written during that same call, never to a request of an
\* earlier call, however late the device answers.
C18_ResponsesPaired ==
    \A i \in 1..Len(s_hist) :
        s_hist[i].kind = "valid" => s_hist[i].req = s_calls

\* C19: a call ends with a boolean result or with the termination of the
\* process; no exception of a port operation leaves send_and_receive.
C19_NoExceptionEscapes == s_result # "raised"

\* C20: consecutive exchanges carry identifiers c and (c + 1) modulo the
\* full width of the identifier's word.
C20_CounterWrapsAtWord ==
    [][s_tx_counter' # s_tx_counter =>
          s_tx_counter' = (s_tx_counter + 1) % (2^WordBits)]_vars

\* An attempt of send_and_receive has just succeeded.
ExchangeSucceeds == s_rx_count' = s_rx_count + 1

\* C21: get_bms_state returns None until the first exchange has succeeded;
\* a successful exchange makes it return the status that exchange decoded,
\* and no other step (timeout, invalid frame, write failure, a new call)
\* changes what it returns.
C21_LatestStatus ==
    /\ [](s_rx_count = 0 => get_bms_state = None)
    /\ [][IF ExchangeSucceeds
           THEN /\ XBBDecode(s_rx_frame') # None
                /\ get_bms_state' = XBBDecode(s_rx_frame')
           ELSE get_bms_state' = get_bms_state]_vars

C21_Witness ==
    /\ s_calls = 2
    /\ get_bms_state = 1
    /\ Len(s_hist) = 2
    /\ s_hist[1].kind = "timeout"
    /\ s_hist[2].kind = "invalid"
    /\ s_rx_frame = [data |-> 2, intact |-> FALSE]

(***************************************************************************)
(* Properties of BidirectionalUART                                         *)
(***************************************************************************)

\* The lock a waiting thread is waiting for, by its position.
WaitsFor(t) ==
    CASE pc[t] \in {"open_acq", "close_acq", "tx_acquire", "rx_acquire"}
                                 -> serial_lock
      [] pc[t] = "inc_acq"       -> stats_lock
      [] pc[t] = "rx_update"     -> bms_state_lock
      [] pc[t] = "rx_callback"   -> callback_lock
      [] OTHER                   -> Free

\* C4: no thread requests a lock it already holds (such a thread would wait
\* for itself and so be blocked forever): a thread waiting for the serial
\* port lock, the statistics lock, the status lock or the callback lock is
\* not the holder of that lock.
C4_NoSelfRequest == \A t \in Threads : WaitsFor(t) # t

StopCalled == pc["main"] = "stop_set_rx"

Stopped ==
    /\ pc["main"] = "stopped"
    /\ pc["tx"] = "tx_done"
    /\ pc["rx"] = "rx_done"
    /\ port = "closed"

\* C5: once stop() has been called, the sender loop and the receiver loop
\* both eventually exit and stop() returns with the port closed.
C5_StopCompletes == StopCalled ~> Stopped

\* The send_frame call of the owner thread that found the outbound queue
\* full has returned.
FullSendReturned ==
    /\ hist.sf_full
    /\ pc["main"] \notin {"inc_acq", "inc_wr", "sf_false"}

\* C6: a send_frame of a valid record that finds the outbound queue at its
\* capacity does not block (its enqueue step can always be taken, and the
\* statistics lock it then waits for is free or held by a thread that can
\* release it), leaves the queued frames as they were, counts exactly one
\* send error and returns False.
C6_Backpressure ==
    /\ pc["main"] = "sf_put" => ENABLED SendFramePut("main")
    /\ hist.sf_full =>
          /\ hist.sf_kept
          /\ hist.sf_incs <= 1
          /\ loc["main"].res # "true"
    /\ (hist.sf_full /\ pc["main"] = "inc_acq") =>
          \/ ENABLED IncAcquire("main")
          \/ ENABLED IncWrite(stats_lock)
    /\ FullSendReturned =>
          /\ loc["main"].res = "false"
          /\ hist.sf_incs = 1

C6_Witness ==
    /\ FullSendReturned
    /\ loc["main"].res = "false"
    /\ Len(tx_queue) = TxQueueCap
    /\ stats["tx_errors"] >= 1

\* The receiver's step that ends its handling of a full inbound queue,
\* with no consumer having removed a record since the push failed.
EvictionEnds ==
    /\ pc["rx"] = "rx_put2"
    /\ pc'["rx"] # "rx_put2"
    /\ ~hist.rx_raced

\* C7: when the receiver decodes a frame while the inbound queue is at its
\* capacity and no consumer removes records meanwhile, the oldest record is
\* evicted and the new one appended: the queue is the old queue without its
\* head followed by the new record, its length is the capacity, and the
\* receiver goes on to the next frame; none of its queue steps can block.
C7_DropOldest ==
    /\ [](pc["rx"] \in {"rx_put", "rx_drop", "rx_put2"} =>
            ENABLED (RxPut("rx") \/ RxDrop("rx") \/ RxPut2("rx")))
    /\ [][EvictionEnds =>
            /\ rx_queue' = Append(Tail(hist.rx_full), loc["rx"].cur)
            /\ Len(rx_queue') = RxQueueCap
            /\ pc'["rx"] = "rx_extract"]_vars

C7_Witness ==
    /\ Len(hist.rx_full) = RxQueueCap
    /\ ~hist.rx_raced
    /\ hist.cb_fate = "pushed"
    /\ pc["rx"] = "rx_extract"
    /\ Len(rx_queue) = RxQueueCap
    /\ Head(rx_queue) = hist.rx_full[2]
    /\ rx_queue[RxQueueCap].timestamp_ms = RxQueueCap + 1

\* The status as _update_bms_state leaves it after the frame numbered d.
StateOf(d) ==
    LET r == BMSDecode([kind |-> "ok", data |-> d]) IN
    [mosfet_charge |-> r.mosfet_charge,
     mosfet_discharge |-> r.mosfet_discharge,
     protection_active |-> r.protection_active,
     protection_flags |-> r.protection_flags,
     bms_current_ma |-> r.bms_current_ma,
     bms_voltage_mv |-> r.bms_voltage_mv,
     last_update_ms |-> r.timestamp_ms,
     last_update_time |-> 1]

\* A status all of whose fields come from one source.
Whole(st) ==
    \/ st = InitialBmsState
    \/ \E d \in 1..env.sent : st = StateOf(d)

\* C8: every snapshot get_bms_state has returned, to whichever thread, has
\* all its fields from one decoded frame or all from the defaults.
C8_NoTornSnapshot ==
    \A t \in Threads : loc[t].snap # NoRecord => Whole(loc[t].snap)

C8_Witness ==
    /\ pc["rx"] = "rx_upd"
    /\ ~Whole(bms_state)
    /\ loc["main"].snap = StateOf(1)
    /\ loc["aux"].snap = InitialBmsState
    /\ ~ENABLED GetBmsState("main")

\* Increments of counter c that have read the counter and not yet written
\* it back.
InFlight(c) ==
    Cardinality({t \in Threads : pc[t] = "inc_wr" /\ loc[t].ctr = c})

\* C9: each counter equals the number of increment events on it since
\* creation or the last reset_statistics (an increment under way has read
\* the counter and not yet written it), and a counter only decreases in a
\* step that sets all six to zero.
C9_StatisticsExact ==
    /\ [](\A c \in Counters : stats[c] = hist.events[c] - InFlight(c))
    /\ [][\A c \in Counters :
            stats'[c] < stats[c] => stats' = [k \in Counters |-> 0]]_vars

C9_Witness ==
    /\ pc["main"] = "inc_wr"
    /\ loc["main"].ctr = "tx_errors"
    /\ pc["tx"] = "inc_acq"
    /\ loc["tx"].ctr = "tx_errors"
    /\ ~ENABLED IncAcquire("tx")
    /\ stats["tx_count"] = 0
    /\ hist.events["tx_errors"] = 1

\* C10: a record whose callback raised is still pushed onto the inbound
\* queue: once the receiver is done with it, it has been pushed, not given
\* up.
C10_RaisedRecordPushed ==
    (hist.cb_raised /\ hist.cb_fate # "pending") => hist.cb_fate = "pushed"

\* C29: no decoded record is lost to a consumer race.  When the receiver
\* leaves its queue handling (the first push, the eviction pop, the second
\* push), the record it decoded is the newest item of the inbound queue,
\* also with a consumer taking records in between.
QueueHandling == {"rx_put", "rx_drop", "rx_put2"}

ReceiverDoneWithRecord ==
    /\ pc["rx"] \in QueueHandling
    /\ pc'["rx"] \notin QueueHandling

C29_NoRecordLostToRace ==
    [][ReceiverDoneWithRecord =>
          /\ rx_queue' # <<>>
          /\ rx_queue'[Len(rx_queue')] = loc["rx"].cur]_vars

\* C30: concurrent producers get distinct, ordered sequence numbers.  Of
\* the frames send_frame accepted, in the order they entered the outbound
\* queue, no two within a window of as many frames as the sequence number
\* has values carry the same number, and each frame's number is ahead of
\* the number of the frame before it.
Ahead(a, b) == (b - a + SeqModulus) % SeqModulus

C30_DistinctOrdered ==
    /\ \A i \in 1..Len(hist.accepted) : \A j \in (i + 1)..Len(hist.accepted) :
          j - i < SeqModulus => hist.accepted[i] # hist.accepted[j]
    /\ \A k \in 1..(Len(hist.accepted) - 1) :
          Ahead(hist.accepted[k], hist.accepted[k + 1]) \in 1..(SeqModulus \div 2)

\* The owner thread takes a step of send_frame: the call, or a step from
\* inside it.
SendFrameSteps ==
    \/ pc["main"] = "running" /\ pc'["main"] \in {"sf_seq", "inc_acq"}
    \/ /\ pc["main"] \in {"sf_seq", "sf_put", "inc_acq", "inc_wr", "sf_false"}
       /\ pc'["main"] # pc["main"]

\* The last send_frame call of the owner thread was given a record that
\* fails validation, and has returned.
InvalidSendReturned == ~hist.sf_valid /\ pc["main"] = "running"

\* C22: a send_frame whose record fails validation returns False and has
\* counted exactly one send error, and none of its steps changes the
\* outbound queue, the sequence counter or the port.
C22_ValidationFailure ==
    /\ [](InvalidSendReturned =>
            /\ loc["main"].res = "false"
            /\ hist.sf_incs = 1)
    /\ [](~hist.sf_valid => hist.sf_incs <= 1)
    /\ [][(SendFrameSteps /\ ~hist'.sf_valid) =>
            /\ tx_queue' = tx_queue
            /\ tx_sequence' = tx_sequence
            /\ port' = port]_vars

C22_Witness ==
    /\ InvalidSendReturned
    /\ loc["main"].res = "false"
    /\ stats["tx_errors"] = 1
    /\ tx_sequence = 1
    /\ Len(hist.accepted) = 1

\* The last send_frame call of the owner thread has returned False.
\* C23: no outbound frame is lost uncounted.  hist.accepted holds the
\* frames for which send_frame returned True and hist.tx_settled counts the
\* increments of tx_count and tx_errors made by the sender loop.  A frame
\* that has left the outbound queue has been counted when the sender loop
\* is back at its loop header, and the n-th accepted frame is eventually
\* followed by the n-th such increment.
FramesTaken == Len(hist.accepted) - Len(tx_queue)

C23_NoFrameLostUncounted ==
    /\ [](pc["tx"] = "tx_loop" => hist.tx_settled >= FramesTaken)
    /\ \A n \in 1..(TxQueueCap + MaxSends) :
          (Len(hist.accepted) >= n) ~> (hist.tx_settled >= n)

\* C25: sender write-fault recovery.  When a write in the sender loop was
\* short or failed, the send error has been counted, and the sender loop
\* then closes the port and gets back to its loop header, where it takes
\* the next pending frame (TxLocked reopens a closed port before the write).
WriteFaulted == pc["tx"] = "tx_fault"

C25_WriteFaultRecovery ==
    /\ [](WriteFaulted => /\ hist.events["tx_errors"] >= 1
                          /\ hist.tx_settled >= 1)
    /\ WriteFaulted ~> (pc["tx"] = "tx_loop" /\ port = "closed")

\* C28: shutdown ordering.  A step of shutdown that closes the open port -
\* the _close_serial_port call of stop(), or the one the sender thread
\* makes when its loop has ended - is taken only when both the sender loop
\* and the receiver loop have exited.
TxLoopExited ==
    \/ pc["tx"] = "tx_done"
    \/ pc["tx"] = "close_acq" /\ loc["tx"].ret = "tx_done"

RxLoopExited == pc["rx"] = "rx_done"

ShutdownCloses ==
    /\ port = "open"
    /\ port' = "closed"
    /\ \E t \in {"main", "tx"} :
          /\ pc[t] = "close_acq"
          /\ loc[t].ret \in {"stopped", "tx_done"}
          /\ pc'[t] = loc[t].ret

C28_CloseAfterLoops ==
    [][ShutdownCloses => (TxLoopExited /\ RxLoopExited)]_vars

SendFailed == pc["main"] = "running" /\ loc["main"].res = "false"

\* C11: a send_frame that returns failure (validation failure, encoding
\* failure, full outbound queue) leaves the outbound sequence counter as it
\* found it.
C11_FailureKeepsSequence == SendFailed => tx_sequence = hist.sf_seq0

\* C12: with a single caller and every send accepted so far, the k-th frame
\* accepted (k counted from 0) carries sequence number k mod 2^SeqBits, so
\* the numbers run 0, 1, ..., 2^SeqBits - 1, 0.
C12_SequenceWraps ==
    ~hist.rejected =>
        \A k \in 1..Len(hist.accepted) :
            hist.accepted[k] = (k - 1) % (2^SeqBits)

C12_Witness ==
    /\ ~hist.rejected
    /\ Len(hist.accepted) = 2^SeqBits + 1
    /\ hist.accepted[2^SeqBits] = 2^SeqBits - 1
    /\ hist.accepted[2^SeqBits + 1] = 0

(***************************************************************************)
(* Properties of _extract_frame                                            *)
(***************************************************************************)

\* C13: from a buffer holding g1 ++ f1 ++ g2 ++ f2, repeated _extract_frame
\* calls return f1, then f2 and no other frame, and leave the buffer empty:
\* what has been returned so far is a prefix of <<f1, f2>>, and once calls
\* change nothing any more both frames have been returned and the buffer is
\* empty.
C13_Resynchronizes ==
    x_last # "idle" =>
        LET wanted == <<x_given[2], x_given[4]>> IN
        /\ Len(x_yield) <= 2
        /\ x_yield = SubSeq(wanted, 1, Len(x_yield))
        /\ x_last = "stalled" => (x_yield = wanted /\ x_buffer = <<>>)

\* The bytes of the frame delivered so far.
Delivered == SubSeq(x_given[1], 1, Len(x_given[1]) - Len(x_pending))

\* C14: feeding a frame byte by byte, the call after every proper prefix
\* returns none and keeps the prefix buffered, and the call after the last
\* byte returns the whole frame, once, leaving the buffer empty.
C14_PartialFrames ==
    x_last # "idle" =>
        IF x_pending # <<>>
        THEN /\ x_last = "none"
             /\ x_yield = <<>>
             /\ x_buffer = Delivered
        ELSE /\ x_last = "frame"
             /\ x_yield = <<x_given[1]>>
             /\ x_buffer = <<>>

C14_Witness ==
    /\ x_pending = <<>>
    /\ x_last = "frame"
    /\ Len(x_given[1]) = ExpectedSize(MaxPayload)
    /\ x_given[1][6] = SofByte
    /\ x_yield = <<x_given[1]>>

(***************************************************************************)
(* Properties of the frame codec                                           *)
(***************************************************************************)

\* A decoder for message id msg_id and payload size size has to reject the
\* frame: it is too short, a marker or the message id is wrong, the length
\* byte does not fit the frame or the schema, or the checksum is wrong.
MustReject(frame, msg_id, size) ==
    \/ Len(frame) < 7
    \/ frame[1] # SofByte
    \/ frame[Len(frame)] # EofByte
    \/ frame[2] # msg_id
    \/ Len(frame) # 1 + 4 + frame[3] + 2 + 1
    \/ frame[3] # size
    \/ crc16_ccitt(SubSeq(frame, 2, Len(frame) - 3))
          # UnpackLE(SubSeq(frame, Len(frame) - 2, Len(frame) - 1))

\* C15: neither decoder raises, whatever the bytes, and each returns None
\* for a frame it has to reject.
C15_DecodeNeverRaises ==
    /\ c_op = "AFEMeasFrame.decode" =>
          /\ c_out # Raised("struct.error")
          /\ MustReject(c_in, MSG_ID_AFE_MEAS, AfePayloadSize) =>
                c_out = NoRecord
    /\ c_op = "BMSAppFrame.decode" =>
          /\ c_out # Raised("struct.error")
          /\ MustReject(c_in, MSG_ID_BMS_APP, BmsPayloadSize) =>
                c_out = NoRecord

\* Every field of the record is within its declared range.
InDeclaredRanges(p) ==
    /\ Len(p.vcell_mv) = NumCells
    /\ Len(p.tcell_cc) = NumCells
    /\ \A i \in 1..Len(p.vcell_mv) : p.vcell_mv[i] \in 0..MaxShort
    /\ \A i \in 1..Len(p.tcell_cc) :
          p.tcell_cc[i] \in MinSignedShort..MaxSignedShort
    /\ p.pack_current_ma \in MinSignedLong..MaxSignedLong
    /\ p.timestamp_ms \in 0..MaxLong
    /\ p.pack_voltage_mv \in 0..MaxLong
    /\ p.status_flags \in 0..MaxLong

EncodeFailed == c_out \in {Raised("ValueError"), Raised("struct.error")}

\* C16: encode called with a record that has a field out of its declared
\* range fails with an error and returns no frame.
C16_EncodeRejectsOutOfRange ==
    (c_op = "encode" /\ ~InDeclaredRanges(c_in)) => EncodeFailed

\* C17: encode of a valid record and a sequence number in range returns a
\* frame of 1 + 4 + PAYLOAD_SIZE + 2 + 1 bytes, and decode of that frame
\* returns the record, field for field, with the sequence number.
C17_RoundTrip ==
    /\ (c_op = "encode" /\ InDeclaredRanges(c_in)) =>
          /\ ~EncodeFailed
          /\ Len(c_out.frame) = 1 + 4 + AfePayloadSize + 2 + 1
    /\ (c_op = "AFEMeasFrame.decode" /\ InDeclaredRanges(c_in)) =>
          c_out = c_in

C17_Witness ==
    /\ c_op = "AFEMeasFrame.decode"
    /\ c_out = c_in
    /\ c_out.tcell_cc[1] = MinSignedShort
    /\ c_out.tcell_cc[NumCells] = 0 - 1
    /\ c_out.vcell_mv[1] = MaxShort
    /\ c_out.pack_current_ma = MinSignedLong
    /\ c_out.timestamp_ms = MaxLong
    /\ c_out.sequence = MaxShort

\* C24: single-bit corruption is always detected.  For every frame encode
\* produced and every single flipped bit in its message id, length, sequence
\* number or payload, AFEMeasFrame.decode of the corrupted frame returns
\* None (it does not return a record and does not raise).
DecodedCorrupted == c_op = "AFEMeasFrame.decode" /\ x_given # <<>>

\* The positions at which two frames of one length differ.
Differing(f, g) == {i \in 1..Len(f) : f[i] # g[i]}

C24_SingleBitDetected ==
    /\ DecodedCorrupted => c_out = NoRecord
    /\ c_op \in {"corrupt", "AFEMeasFrame.decode"} =>
          /\ Len(c_in) = Len(x_given)
          /\ \E i \in HeaderAndPayload(x_given), k \in 0..(ByteBits - 1) :
                /\ Differing(x_given, c_in) = {i}
                /\ c_in[i] = FlipBit(x_given[i], k)

C24_Witness ==
    /\ DecodedCorrupted
    /\ c_out = NoRecord
    /\ Differing(x_given, c_in) = {5 + AfePayloadSize}
    /\ c_in[5 + AfePayloadSize] = FlipBit(x_given[5 + AfePayloadSize],
                                          ByteBits - 1)
    /\ x_given = BuildFrame(MSG_ID_AFE_MEAS, MaxShort, PayloadOf(x_given))

\* C26: frame corruption is always recovered by resynchronizing.  After a
\* finite run of garbage, with the port delivering only intact status
\* frames back to back, the receiver eventually hands a frame to the
\* decoder that decodes to a status record (the frames-received counter
\* increases).
StatusDelivered == x_last = "delivered"

C26_EventuallyRealigned == <>StatusDelivered

\* C27: one poll cycle drains the buffer of complete frames.  The status
\* frame that lay wholly in the buffer after the read, behind whatever
\* bytes, has been extracted and decoded when the cycle's loop ends.
CycleEnded == x_last # "idle" /\ x_pending = <<>>

C27_CycleDrains ==
    CycleEnded =>
        /\ \E i \in 1..Len(x_yield) :
              x_yield[i] = BuildFrame(MSG_ID_BMS_APP, 0, x_given[2])
        /\ StatusDelivered

\* stop() has returned.
StopReturned == pc["main"] = "stopped"

\* A step that uses the port: a write of the sender loop, a read of the
\* receiver loop, or an open.
PortUsed ==
    \/ env'.written # env.written
    \/ pc["tx"] = "tx_write" /\ pc'["tx"] # "tx_write"
    \/ pc["rx"] = "rx_locked" /\ pc'["rx"] \in {"rx_extract", "rx_raised"}
    \/ port = "closed" /\ port' = "open"

\* C31: after stop() has returned the port is closed and stays closed:
\* neither loop writes to, reads from or reopens the port, even when the
\* loop was still running when its join timed out.
C31_ClosedAfterStop ==
    /\ [](StopReturned => port = "closed")
    /\ [][StopReturned => ~PortUsed]_vars

\* stop() has returned while the sender loop, its join having timed out,
\* holds a frame and has found the port closed.
C31_Witness ==
    /\ StopReturned
    /\ pc["tx"] = "open_acq"
    /\ serial_lock = "tx"

\* The sender loops and the receiver loops that are running: the thread
\* has been started and has not left its while loop.
RunningSenders ==
    {t \in Senders :
        /\ pc[t] \notin {"not_started", "tx_done"}
        /\ ~(pc[t] = "close_acq" /\ loc[t].ret = "tx_done")}

RunningReceivers == {t \in Receivers : pc[t] \notin {"not_started", "rx_done"}}

\* C32: across any sequence of start() and stop() calls, at most one
\* sender loop and at most one receiver loop are running at any time.
C32_OneLoopOfEachKind ==
    /\ Cardinality(RunningSenders) <= 1
    /\ Cardinality(RunningReceivers) <= 1

\* The thread is inside a with-block of a loop at a use of the port: the
\* is_open test, the write and flush of the sender, the in_waiting poll and
\* the read of the receiver.
InPortOperation(t) == pc[t] \in {"tx_locked", "tx_write", "rx_locked"}

\* C33: port mutual exclusion.  A thread that is executing an operation on
\* the port holds the serial lock, so at most one thread at a time is
\* executing one; and the port is opened or closed only by a step that
\* found the lock free, while no thread is at an operation.
C33_PortMutualExclusion ==
    /\ [](\A t \in Threads : InPortOperation(t) => serial_lock = t)
    /\ [][port' # port =>
             /\ SerialLockFree
             /\ \A t \in Threads : ~InPortOperation(t)]_vars

\* The sender is writing while the receiver waits for the lock and stop()
\* waits for it to close the port.
C33_Witness ==
    /\ pc["tx"] = "tx_write"
    /\ pc["rx"] = "rx_acquire"
    /\ pc["main"] = "close_acq"

\* The thread is extracting or decoding a frame, updating the shared
\* status, running the status callback or updating the inbound queue.
ProcessingFrames(t) ==
    pc[t] \in {"rx_extract", "rx_update", "rx_upd", "rx_callback", "rx_put",
               "rx_drop", "rx_put2"}

\* C34: the serial lock is held only for a single port read or write: no
\* thread holds it while it extracts or decodes frames, while the status
\* callback runs or while the inbound queue is updated.
C34_LockOnlyForPortIO ==
    \A t \in Threads : ProcessingFrames(t) => serial_lock # t

\* s is what remains of b when bytes are taken from its head.
IsSuffix(s, b) ==
    /\ Len(s) <= Len(b)
    /\ s = SubSeq(b, Len(b) - Len(s) + 1, Len(b))

\* The buffer holds a start marker but not yet the whole frame it
\* announces: _extract_frame needs more data.
NeedsMoreData(buf) ==
    /\ FirstSof(buf) # 0
    /\ LET have == Len(buf) - FirstSof(buf) + 1 IN
          \/ have < 7
          \/ have < ExpectedSize(buf[FirstSof(buf) + 2])

\* C35: receive-buffer integrity.  Every _extract_frame call leaves the
\* buffer equal to a suffix of its content before the call; a returned
\* frame is the run of the earlier content immediately before that suffix;
\* and when no frame is returned because more data is needed, everything
\* from the found start marker on is still in the buffer.
C35_BufferIntegrity ==
    [][/\ IsSuffix(x_buffer', x_buffer)
       /\ x_last' = "frame" =>
             IsSuffix(x_yield'[Len(x_yield')] \o x_buffer', x_buffer)
       /\ NeedsMoreData(x_buffer) =>
             /\ x_last' # "frame"
             /\ x_buffer' = SubSeq(x_buffer, FirstSof(x_buffer),
                                   Len(x_buffer))]_vars

\* Calls have dropped leading bytes and returned a frame, and the last one
\* found a start marker with too little behind it and kept it.
C35_Witness ==
    /\ x_last = "stalled"
    /\ x_yield # <<>>
    /\ x_buffer # <<>>
    /\ NeedsMoreData(x_buffer)
    /\ Len(x_given[1]) > 0

\* From its first start marker on the buffer holds a whole candidate frame,
\* as long as its length byte says, whose last byte is not the end marker.
EndMarkerMismatch(buf) ==
    /\ FirstSof(buf) # 0
    /\ LET b == SubSeq(buf, FirstSof(buf), Len(buf)) IN
          /\ Len(b) >= 7
          /\ Len(b) >= ExpectedSize(b[3])
          /\ b[ExpectedSize(b[3])] # EofByte

\* C36: the resync step on an end-marker mismatch.  With a whole candidate
\* frame in the buffer whose byte at the end-marker position is not the end
\* marker, _extract_frame removes exactly one byte of it, its start marker
\* (with the marker at the head of the buffer, exactly one byte in all),
\* adds exactly one to the frame-format-error counter and returns none;
\* every byte after that marker stays for the next call to search.
C36_ResyncStep ==
    [][EndMarkerMismatch(x_buffer) =>
          /\ x_buffer' = SubSeq(x_buffer, FirstSof(x_buffer) + 1,
                                Len(x_buffer))
          /\ (x_buffer[1] = SofByte => Len(x_buffer') = Len(x_buffer) - 1)
          /\ x_counted' = 1
          /\ x_last' = "none"
          /\ x_yield' = x_yield]_vars

\* A call has just taken the resync step and left a buffer in which the
\* next call finds a start marker.
C36_Witness ==
    /\ x_counted = 1
    /\ x_last = "none"
    /\ FirstSof(x_buffer) # 0

\* The frames _extract_frame has handed to the receiver loop: those the
\* device sent that are neither in the port nor in the buffer any more
\* (every frame on this line has its end marker).
FramesHanded == env.sent - Len(wire) - Len(rx_buffer)

\* The receiver has decoded a frame and is about to count it.
CountPending(t) ==
    /\ pc[t] = "inc_acq"
    /\ loc[t].ctr \in {"rx_count", "crc_errors"}

\* The receiver is counting a frame whose decode returned None.
CountingFailedDecode(t) ==
    /\ pc[t] \in {"inc_acq", "inc_wr"}
    /\ loc[t].ctr = "crc_errors"

\* C37: every frame the extractor hands to the receiver is counted exactly
\* once, as received when the decode succeeded and as a checksum error
\* when it returned None; and a frame whose decode failed leaves the shared
\* status and the inbound queue to the receiver untouched and goes back to
\* the extractor without the update or the callback.
C37_CountedExactlyOnce ==
    /\ [](FramesHanded = hist.events["rx_count"] + hist.events["crc_errors"]
                         + Cardinality({t \in Receivers : CountPending(t)}))
    /\ [][\A t \in Receivers :
            /\ (pc[t] = "rx_extract" /\ pc'[t] = "inc_acq") =>
                  /\ loc'[t].ctr =
                        IF BMSDecode(Head(DropGarbage(rx_buffer))) # NoRecord
                        THEN "rx_count" ELSE "crc_errors"
                  /\ bms_state' = bms_state
                  /\ rx_queue' = rx_queue
            /\ (CountingFailedDecode(t) /\ pc'[t] # pc[t]) =>
                  /\ bms_state' = bms_state
                  /\ rx_queue' = rx_queue
                  /\ pc'[t] \in {"inc_wr", "rx_extract"}]_vars

\* A frame with a wrong checksum has been counted after one that decoded,
\* and the receiver is back at the extractor.
C37_Witness ==
    /\ hist.events["crc_errors"] = 1
    /\ hist.events["rx_count"] = 1
    /\ stats["crc_errors"] = 1
    /\ pc["rx"] = "rx_extract"
    /\ bms_state.last_update_ms = 1

\* A send_and_receive call is inside its retry loop.
InRetryLoop == s_pc \in {"send", "receive"}

\* C38: every send_and_receive call terminates.  Whatever the port and the
\* device do (silence, garbage, invalid frames, write failures), a call
\* that has entered its retry loop returns or aborts, and it never makes
\* more than max_retries writes of the request frame.
C38_CallTerminates ==
    /\ [](s_writes <= max_retries)
    /\ InRetryLoop ~> ~InRetryLoop

\* A call has aborted after a write failure, an invalid frame and a
\* silent attempt, with max_retries writes made.
C38_Witness ==
    /\ s_pc = "exited"
    /\ s_writes = max_retries
    /\ \A k \in {"write_failed", "invalid", "timeout"} :
          \E i \in 1..Len(s_hist) : s_hist[i].kind = k

\* The step ends an attempt of the exchange under way, as a failure or as
\* a success.
AttemptFails ==
    /\ Len(s_hist') = Len(s_hist) + 1
    /\ s_hist'[Len(s_hist')].kind \in {"write_failed", "timeout", "invalid"}

AttemptSucceeds ==
    /\ Len(s_hist') = Len(s_hist) + 1
    /\ s_hist'[Len(s_hist')].kind = "valid"

\* The step goes from a failed attempt to the next attempt of the call.
RetryMade ==
    /\ InRetryLoop
    /\ s_pc' = "send"
    /\ s_attempt' = s_attempt + 1

\* C39: failure accounting of the synchronous transport.  Every failed
\* attempt (write failure, response timeout, validation failure) adds
\* exactly one to the error counter and a successful one adds nothing; the
\* retry counter grows by exactly one for each attempt made after a failed
\* one, and not otherwise.
C39_FailureAccounting ==
    [][/\ s_error_count' = s_error_count + (IF AttemptFails THEN 1 ELSE 0)
       /\ AttemptSucceeds => s_error_count' = s_error_count
       /\ s_retry_count' = s_retry_count + (IF RetryMade THEN 1 ELSE 0)]_vars

\* The step is the beginning of a send_and_receive call that encodes its
\* request and enters the retry loop.
CallEncodes == s_calls' = s_calls + 1 /\ s_pc' = "send"

\* C40: retries resend the same request.  All writes of one call are of
\* the identical frame, which carries the value the identifier counter had
\* when the call began; and the counter advances exactly once per call
\* that has encoded its request, in the step that encodes it, whatever the
\* number of attempts and the outcome of the call (a call that ends before
\* it has a frame, on a closed port or a failed encoding, leaves it).
C40_SameRequestResent ==
    /\ [](\A i \in 1..Len(s_sent) :
             /\ s_sent[i] = s_sent[1]
             /\ s_sent[i] = s_tx_frame
             /\ EncodedWith((s_tx_counter + TxCounterModulus - 1)
                               % TxCounterModulus) = s_sent[i])
    /\ [][s_tx_counter' =
             IF CallEncodes THEN (s_tx_counter + 1) % TxCounterModulus
             ELSE s_tx_counter]_vars

\* A second call has written its request max_retries times, after write
\* failures, silence or invalid responses, and has aborted.
C40_Witness ==
    /\ s_calls = 2
    /\ Len(s_sent) = max_retries
    /\ s_pc = "exited"
    /\ s_tx_counter = 2

====
